---- MODULE Spec2Model ----
(***************************************************************************)
(* A model of the GTFS dashboard backend (src/app.py, src/db.py).          *)
(*                                                                         *)
(* Text is modelled as a sequence of one-character strings, so that        *)
(* splitting and integer conversion are computed rather than assumed.      *)
(* An optional value (Python None or a value) is a sequence of length 0    *)
(* or 1: None == <<>>, Some(v) == <<v>>.                                   *)
(***************************************************************************)
EXTENDS Integers, Sequences, FiniteSets, TLC

VARIABLES
    time_str,   \* the argument handed to parse_time_to_seconds
    secs,       \* the integer that time_str renders (Some(n)), or None
    outcome,    \* what the last call did: returned a value or raised
    routes,     \* routes.txt as load_csv returns it: a sequence of rows
    trips,      \* trips.txt, likewise
    stops,      \* stops.txt, likewise
    stop_times, \* stop_times.txt, likewise
    request,    \* the request handled last
    response,   \* and the response it got
    nreq,       \* the number of requests handled so far
    thr,        \* per request thread: its position and its local variables
    files,      \* the four active files under GTFS_DIR, by table content
    uploads,    \* the upload records of the database, with their rows
    active      \* CURRENT_ACTIVE_UPLOAD_ID

timeVars == <<time_str, secs, outcome>>
rowVars == <<routes, trips, stops, stop_times>>
reqVars == <<request, response, nreq>>
dbVars == <<files, uploads, active>>
vars == <<time_str, secs, outcome, routes, trips, stops, stop_times,
          request, response, nreq, thr, files, uploads, active>>

None == <<>>
Some(v) == <<v>>

NotCalled == [kind |-> "idle", val |-> None]

NoRequest == [op |-> "none"]
NoResponse == [status |-> 0]

\* The values of the variables a specification does not use.
IdleTime == time_str = <<>> /\ secs = None /\ outcome = NotCalled
IdleRows == routes = <<>> /\ trips = <<>> /\ stops = <<>> /\ stop_times = <<>>
IdleReq == request = NoRequest /\ response = NoResponse /\ nreq = 0
IdleThr == thr = <<>>
IdleDb == files = <<>> /\ uploads = <<>> /\ active = None

----------------------------------------------------------------------------
(* Python text primitives *)

Digits == {"0", "1", "2", "3", "4", "5", "6", "7", "8", "9"}

DigitVal(c) ==
    CASE c = "0" -> 0 [] c = "1" -> 1 [] c = "2" -> 2 [] c = "3" -> 3
      [] c = "4" -> 4 [] c = "5" -> 5 [] c = "6" -> 6 [] c = "7" -> 7
      [] c = "8" -> 8 [] c = "9" -> 9

DigitChar(d) ==
    CASE d = 0 -> "0" [] d = 1 -> "1" [] d = 2 -> "2" [] d = 3 -> "3"
      [] d = 4 -> "4" [] d = 5 -> "5" [] d = 6 -> "6" [] d = 7 -> "7"
      [] d = 8 -> "8" [] d = 9 -> "9"

RECURSIVE LStrip(_)
LStrip(s) == IF s # <<>> /\ Head(s) = " " THEN LStrip(Tail(s)) ELSE s

RECURSIVE RStrip(_)
RStrip(s) ==
    IF s # <<>> /\ s[Len(s)] = " " THEN RStrip(SubSeq(s, 1, Len(s) - 1)) ELSE s

\* str.strip()
Strip(s) == RStrip(LStrip(s))

RECURSIVE DigitsValue(_)
DigitsValue(s) ==
    IF s = <<>> THEN 0
    ELSE 10 * DigitsValue(SubSeq(s, 1, Len(s) - 1)) + DigitVal(s[Len(s)])

\* int(text): surrounding blanks are ignored, one sign is allowed, and what
\* is left must be a non-empty run of digits; anything else is a ValueError,
\* rendered as None.
PyInt(s) ==
    LET t == Strip(s)
        signed == t # <<>> /\ Head(t) \in {"-", "+"}
        body == IF signed THEN Tail(t) ELSE t
    IN  IF body = <<>> \/ \E i \in 1..Len(body) : body[i] \notin Digits
        THEN None
        ELSE Some(IF signed /\ Head(t) = "-" THEN 0 - DigitsValue(body)
                  ELSE DigitsValue(body))

\* str.split(sep): always at least one part
RECURSIVE SplitAcc(_, _, _)
SplitAcc(s, sep, cur) ==
    IF s = <<>> THEN <<cur>>
    ELSE IF Head(s) = sep THEN <<cur>> \o SplitAcc(Tail(s), sep, <<>>)
    ELSE SplitAcc(Tail(s), sep, Append(cur, Head(s)))

Split(s, sep) == SplitAcc(s, sep, <<>>)

----------------------------------------------------------------------------
(* Time codec *)

Returned(v) == [kind |-> "return", val |-> v]
Raised(e) == [kind |-> "raise", val |-> e]

\* ParseTimeBody with the minutes taken as seconds (the factor 60 dropped).
ParseTimeBody_MinutesUnscaled(s) ==
    LET parts == Split(s, ":")
        h == IF Len(parts) >= 1 THEN PyInt(parts[1]) ELSE None
        m == IF Len(parts) >= 2 THEN PyInt(parts[2]) ELSE None
        sec == IF Len(parts) >= 3 THEN PyInt(parts[3]) ELSE None
    IN  IF h = None \/ m = None \/ sec = None THEN Raised("ValueError")
        ELSE Returned(Some(h[1] * 3600 + m[1] + sec[1]))

\* The body of the try block: the value, or the exception it stops at.
ParseTimeBody(s) ==
    LET parts == Split(s, ":")
        h == IF Len(parts) >= 1 THEN PyInt(parts[1]) ELSE None
        m == IF Len(parts) >= 2 THEN PyInt(parts[2]) ELSE None
        sec == IF Len(parts) >= 3 THEN PyInt(parts[3]) ELSE None
    IN  IF h = None THEN Raised("ValueError")
        ELSE IF Len(parts) < 2 THEN Raised("IndexError")
        ELSE IF m = None THEN Raised("ValueError")
        ELSE IF Len(parts) < 3 THEN Raised("IndexError")
        ELSE IF sec = None THEN Raised("ValueError")
        ELSE Returned(Some(h[1] * 3600 + m[1] * 60 + sec[1]))

\* The whole call: a falsy argument gives None, and the bare "except"
\* turns every exception of the body into None.
ParseTimeCall(s) ==
    IF s = <<>> THEN Returned(None)
    ELSE LET r == ParseTimeBody(s)
         IN  IF r.kind = "raise" THEN Returned(None) ELSE r

\* The value a caller gets (None or Some(seconds)); callers never see a raise.
parse_time_to_seconds(s) ==
    LET r == ParseTimeCall(s) IN IF r.kind = "return" THEN r.val ELSE None

TwoDigits(n) ==
    IF n < 10 THEN <<"0", DigitChar(n)>>
    ELSE <<DigitChar(n \div 10), DigitChar(n % 10)>>

\* The zero-padded HH:MM:SS rendering of n seconds (hours below 100).
formatSeconds(n) ==
    TwoDigits(n \div 3600) \o <<":">> \o TwoDigits((n % 3600) \div 60)
        \o <<":">> \o TwoDigits(n % 60)

----------------------------------------------------------------------------
(* Tables as load_csv returns them.  A row is a function from column names *)
(* to values; the rows of one file share the header's columns.  Ids and    *)
(* names are strings; times and stop_sequence are texts (sequences of      *)
(* characters) because the code parses them.                               *)

\* dict.get(key): the value, or None when the row has no such column
Get(row, key) == IF key \in DOMAIN row THEN Some(row[key]) ELSE None

RECURSIVE NatText(_)
NatText(n) ==
    IF n < 10 THEN <<DigitChar(n)>>
    ELSE Append(NatText(n \div 10), DigitChar(n % 10))

\* str(n) of an integer
PyStr(n) == IF n < 0 THEN <<"-">> \o NatText(0 - n) ELSE NatText(n)

\* csv.DictWriter(f, fieldnames = rows[0].keys()), writeheader, writerows,
\* on a file just opened with "w" (so already empty).  Rows are written one
\* by one; a row holding a key that is no fieldname raises ValueError and
\* the rows before it stay written.  A missing key is written as "".
\* The result is the file as load_csv reads it back, and whether it raised.
RowOut(row, fieldnames) ==
    [c \in fieldnames |-> IF c \in DOMAIN row THEN row[c] ELSE ""]

FirstBadRow(rows, fieldnames) ==
    LET bad == { i \in 1..Len(rows) : ~(DOMAIN rows[i] \subseteq fieldnames) }
    IN  IF bad = {} THEN 0 ELSE CHOOSE i \in bad : \A j \in bad : i <= j

WriteCsv(rows) ==
    LET fieldnames == DOMAIN rows[1]
        b == FirstBadRow(rows, fieldnames)
        n == IF b = 0 THEN Len(rows) ELSE b - 1
    IN  [raised |-> b # 0,
         file |-> [i \in 1..n |-> RowOut(rows[i], fieldnames)]]

----------------------------------------------------------------------------
(* Metric engine: get_kpis *)

\* The element of a one-element set.  A Python local variable, computed once
\* and then read, is written TheOne({ e(x) : x \in {value} }).
TheOne(S) == CHOOSE r \in S : TRUE

RECURSIVE SumSeq(_)
SumSeq(q) == IF q = <<>> THEN 0 ELSE Head(q) + SumSeq(Tail(q))

\* list.sort(): x goes behind every element that is <= x
RECURSIVE InsertSorted(_, _)
InsertSorted(q, x) ==
    IF q = <<>> THEN <<x>>
    ELSE IF x < Head(q) THEN <<x>> \o q
    ELSE <<Head(q)>> \o InsertSorted(Tail(q), x)

\* SortInts that leaves the list in file order
SortInts_FileOrder(q) == q

RECURSIVE SortInts(_)
SortInts(q) ==
    IF q = <<>> THEN <<>>
    ELSE TheOne({ InsertSorted(sorted, q[Len(q)]) :
                    sorted \in {SortInts(SubSeq(q, 1, Len(q) - 1))} })

\* round(sum / count / 60, 2) for count > 0, as a number of hundredths of a
\* minute.  The quotient is a float: where the exact value lies half way
\* between two hundredths the float may fall on either side, and tie_up says
\* on which.
RoundedMinutes(sum, count, tie_up) ==
    LET num == sum * 100
        den == count * 60
        q == num \div den
        r == num % den
    IN  IF 2 * r < den THEN q
        ELSE IF 2 * r > den THEN q + 1
        ELSE IF tie_up THEN q + 1 ELSE q

\* sum(xs) / len(xs) if xs else 0, then / 60 and round(_, 2)
AvgMinutes(samples, tie_up) ==
    IF samples = <<>> THEN 0
    ELSE RoundedMinutes(SumSeq(samples), Len(samples), tie_up)

\* {trip['trip_id']: trip['route_id'] for trip in trips_data
\*  if 'trip_id' in trip and 'route_id' in trip}: the last row of a trip_id wins
TripToRoute(trs) ==
    LET ok == { i \in 1..Len(trs) : {"trip_id", "route_id"} \subseteq DOMAIN trs[i] }
    IN  [tid \in { trs[i]["trip_id"] : i \in ok } |->
            trs[CHOOSE i \in ok : /\ trs[i]["trip_id"] = tid
                                  /\ \A j \in ok : trs[j]["trip_id"] = tid => j <= i]["route_id"]]

\* st.get(col, '') of a time column
GetText(row, col) == IF col \in DOMAIN row THEN row[col] ELSE <<>>

\* the loop of lines 226-235 for one row: the entry appended, if any
HeadwayEntry(st, t2r) ==
    IF /\ "stop_id" \in DOMAIN st
       /\ "trip_id" \in DOMAIN st
       /\ st["trip_id"] \in DOMAIN t2r
    THEN TheOne({ IF dep_sec # None
                  THEN <<[key |-> <<t2r[st["trip_id"]], st["stop_id"]>>,
                          departure_sec |-> dep_sec[1]]>>
                  ELSE <<>> :
                  dep_sec \in {parse_time_to_seconds(GetText(st, "departure_time"))} })
    ELSE <<>>

\* every entry appended to route_stop_times, in file order
RECURSIVE HeadwayEntries(_, _)
HeadwayEntries(sts, t2r) ==
    IF sts = <<>> THEN <<>>
    ELSE HeadwayEntry(Head(sts), t2r) \o HeadwayEntries(Tail(sts), t2r)

\* the keys of the dict route_stop_times, in order of first insertion
RECURSIVE KeysInOrder(_, _)
KeysInOrder(entries, seen) ==
    IF entries = <<>> THEN <<>>
    ELSE IF Head(entries).key \in seen THEN KeysInOrder(Tail(entries), seen)
    ELSE <<Head(entries).key>>
         \o KeysInOrder(Tail(entries), seen \cup {Head(entries).key})

\* route_stop_times[key], as departure seconds
RECURSIVE DeparturesOf(_, _)
DeparturesOf(entries, key) ==
    IF entries = <<>> THEN <<>>
    ELSE IF Head(entries).key = key
    THEN <<Head(entries).departure_sec>> \o DeparturesOf(Tail(entries), key)
    ELSE DeparturesOf(Tail(entries), key)

\* PositiveGaps with the zero gaps of repeated departures kept
RECURSIVE PositiveGaps_KeepsZero(_)
PositiveGaps_KeepsZero(times) ==
    IF Len(times) < 2 THEN <<>>
    ELSE (IF times[2] - times[1] >= 0 THEN <<times[2] - times[1]>> ELSE <<>>)
         \o PositiveGaps_KeepsZero(Tail(times))

\* lines 240-243 on the sorted departures of one key
RECURSIVE PositiveGaps(_)
PositiveGaps(times) ==
    IF Len(times) < 2 THEN <<>>
    ELSE (IF times[2] - times[1] > 0 THEN <<times[2] - times[1]>> ELSE <<>>)
         \o PositiveGaps(Tail(times))

\* lines 238-243
RECURSIVE GapsOfKeys(_, _)
GapsOfKeys(keys, entries) ==
    IF keys = <<>> THEN <<>>
    ELSE TheOne({ PositiveGaps(times) :
                    times \in { SortInts(unsorted) :
                                  unsorted \in {DeparturesOf(entries, Head(keys))} } })
         \o GapsOfKeys(Tail(keys), entries)

\* the list headways of get_kpis (lines 223-243)
KpiHeadways(trs, sts) ==
    TheOne({ GapsOfKeys(KeysInOrder(entries, {}), entries) :
               entries \in { HeadwayEntries(sts, trip_to_route) :
                               trip_to_route \in {TripToRoute(trs)} } })

\* TripSeconds over the departure seconds alone
TripSeconds_DeparturesOnly(sts, trip_id) ==
    { p[1] : p \in { parse_time_to_seconds(GetText(sts[i], "departure_time")) :
                       i \in { j \in 1..Len(sts) : Get(sts[j], "trip_id") = Some(trip_id) } }
                   \ {None} }

\* lines 252-270: what first and last of a trip are taken over, the arrival
\* and departure seconds that parse
TripSeconds(sts, trip_id) ==
    LET cells == { <<i, c>> \in (1..Len(sts)) \X {"arrival_time", "departure_time"} :
                     Get(sts[i], "trip_id") = Some(trip_id) }
        parsed == { parse_time_to_seconds(GetText(sts[cell[1]], cell[2])) : cell \in cells }
    IN  { p[1] : p \in parsed \ {None} }

SetMax(S) == CHOOSE m \in S : \A x \in S : x <= m
SetMin(S) == CHOOSE m \in S : \A x \in S : m <= x

\* lines 273-276 for one trip
DurationSample(seconds) ==
    IF seconds = {} THEN <<>>
    ELSE IF SetMax(seconds) - SetMin(seconds) > 0
    THEN <<SetMax(seconds) - SetMin(seconds)>>
    ELSE <<>>

\* the keys of trip_times, in order of first insertion (a row without a
\* trip_id, or with an empty one, is skipped)
RECURSIVE TripIdsInOrder(_, _)
TripIdsInOrder(sts, seen) ==
    IF sts = <<>> THEN <<>>
    ELSE TheOne({ IF tid = None \/ tid = Some("") \/ tid[1] \in seen
                  THEN TripIdsInOrder(Tail(sts), seen)
                  ELSE <<tid[1]>> \o TripIdsInOrder(Tail(sts), seen \cup {tid[1]}) :
                  tid \in {Get(Head(sts), "trip_id")} })

RECURSIVE DurationsOf(_, _)
DurationsOf(tids, sts) ==
    IF tids = <<>> THEN <<>>
    ELSE TheOne({ DurationSample(seconds) : seconds \in {TripSeconds(sts, Head(tids))} })
         \o DurationsOf(Tail(tids), sts)

\* the list trip_durations of get_kpis (lines 249-276)
KpiDurations(sts) ==
    TheOne({ DurationsOf(tids, sts) : tids \in {TripIdsInOrder(sts, {})} })

\* lines 199-207 and 218-219 (ids here carry no surrounding blanks)
UniqueIds(rows, col) ==
    Cardinality({ rows[i][col] :
                    i \in { j \in 1..Len(rows) : col \in DOMAIN rows[j] /\ rows[j][col] # "" } })

\* The whole handler.  routes_exists is os.path.exists(routes_file); the
\* averages are in hundredths of a minute.
GetKpisHandler(routes_exists, rs, trs, sps, sts, tie_up) ==
    IF ~routes_exists
    THEN [status |-> 200,
          body |-> [total_routes |-> 0, total_trips |-> 0, avg_headway_minutes |-> 0,
                    avg_trip_duration_minutes |-> 0, total_stops |-> 0,
                    error |-> "routes.txt file not found"]]
    ELSE [status |-> 200,
          body |-> [total_routes |-> UniqueIds(rs, "route_id"),
                    total_trips |-> UniqueIds(trs, "trip_id"),
                    avg_headway_minutes |->
                        TheOne({ AvgMinutes(headways, tie_up) :
                                   headways \in {KpiHeadways(trs, sts)} }),
                    avg_trip_duration_minutes |->
                        TheOne({ AvgMinutes(trip_durations, tie_up) :
                                   trip_durations \in {KpiDurations(sts)} }),
                    total_stops |-> Len(sps)]]

----------------------------------------------------------------------------
(* Metric engine: get_stop_departures *)

\* ord(c) of the characters that occur in the tables
CharCode(c) ==
    CASE c = " " -> 32 [] c = "+" -> 43 [] c = "-" -> 45
      [] c \in Digits -> 48 + DigitVal(c)
      [] c = ":" -> 58
      [] c = "a" -> 97 [] c = "b" -> 98 [] c = "d" -> 100 [] c = "x" -> 120
      [] OTHER -> 127

\* a < b of two str values: by the first character that differs, a proper
\* prefix being the smaller
RECURSIVE TextLess(_, _)
TextLess(a, b) ==
    IF b = <<>> THEN FALSE
    ELSE IF a = <<>> THEN TRUE
    ELSE IF Head(a) # Head(b) THEN CharCode(Head(a)) < CharCode(Head(b))
    ELSE TextLess(Tail(a), Tail(b))

\* the slice [:20] of line 322
BoardLimit == 20

\* {r['route_id']: r for r in routes_data if 'route_id' in r}: the last row
\* of a route_id wins
RouteInfo(rs) ==
    LET ok == { i \in 1..Len(rs) : "route_id" \in DOMAIN rs[i] }
    IN  [rid \in { rs[i]["route_id"] : i \in ok } |->
            rs[CHOOSE i \in ok : /\ rs[i]["route_id"] = rid
                                 /\ \A j \in ok : rs[j]["route_id"] = rid => j <= i]]

\* lines 307-308: None, or the route of the stop-time's trip
DepartureRouteId(st, t2r) ==
    IF "trip_id" \in DOMAIN st /\ st["trip_id"] \in DOMAIN t2r
    THEN Some(t2r[st["trip_id"]])
    ELSE None

DepartureRouteName(route_id, info) ==
    IF route_id = None \/ route_id = Some("") THEN "N/A"
    ELSE IF route_id[1] \in DOMAIN info /\ "route_short_name" \in DOMAIN info[route_id[1]]
    THEN info[route_id[1]]["route_short_name"]
    ELSE route_id[1]

\* lines 310-317: the entry of one stop-time
DepartureEntry(st, t2r, info) ==
    [trip_id |-> Get(st, "trip_id"),
     route_id |-> DepartureRouteId(st, t2r),
     route_name |-> DepartureRouteName(DepartureRouteId(st, t2r), info),
     departure_time |-> st["departure_time"],
     arrival_time |-> Get(st, "arrival_time"),
     stop_sequence |-> Get(st, "stop_sequence")]

\* lines 304-317: the entries collected, in file order
RECURSIVE DepartureEntries(_, _, _, _)
DepartureEntries(sts, stop_id, t2r, info) ==
    IF sts = <<>> THEN <<>>
    ELSE (IF Get(Head(sts), "stop_id") = Some(stop_id) /\ "departure_time" \in DOMAIN Head(sts)
          THEN <<DepartureEntry(Head(sts), t2r, info)>>
          ELSE <<>>)
         \o DepartureEntries(Tail(sts), stop_id, t2r, info)

\* the sort key of line 320 (an empty departure_time sorts as '')
DepartureKey(entry) == entry.departure_time

\* DepartureKeyLess by the seconds the departure times stand for
DepartureKeyLess_BySeconds(x, y) ==
    LET a == parse_time_to_seconds(DepartureKey(x))
        b == parse_time_to_seconds(DepartureKey(y))
    IN  IF a = None \/ b = None THEN TextLess(DepartureKey(x), DepartureKey(y))
        ELSE a[1] < b[1]

DepartureKeyLess(x, y) == TextLess(DepartureKey(x), DepartureKey(y))

\* list.sort(key = ...) is stable: x goes behind every entry whose key is
\* not larger than its own
RECURSIVE InsertDeparture(_, _)
InsertDeparture(q, x) ==
    IF q = <<>> THEN <<x>>
    ELSE IF DepartureKeyLess(x, Head(q)) THEN <<x>> \o q
    ELSE <<Head(q)>> \o InsertDeparture(Tail(q), x)

RECURSIVE SortDepartures(_)
SortDepartures(q) ==
    IF q = <<>> THEN <<>>
    ELSE TheOne({ InsertDeparture(sorted, q[Len(q)]) :
                    sorted \in {SortDepartures(SubSeq(q, 1, Len(q) - 1))} })

FirstN(q, n) == SubSeq(q, 1, IF Len(q) < n THEN Len(q) ELSE n)

\* The whole handler.
GetStopDeparturesHandler(rs, trs, sts, stop_id) ==
    [status |-> 200,
     body |-> TheOne({ FirstN(sorted, BoardLimit) :
                sorted \in { SortDepartures(departures) :
                    departures \in { DepartureEntries(sts, stop_id, t2r, info) :
                        t2r \in {TripToRoute(trs)}, info \in {RouteInfo(rs)} } } })]

----------------------------------------------------------------------------
(* Metric engine: get_route_details *)

\* "if x:" of an Optional number: neither None nor 0
Truthy(x) == x # None /\ x[1] # 0

\* [row for row in rows if row.get(col) == value], value an Optional
RECURSIVE RowsWhere(_, _, _)
RowsWhere(rows, col, value) ==
    IF rows = <<>> THEN <<>>
    ELSE (IF Get(Head(rows), col) = value THEN <<Head(rows)>> ELSE <<>>)
         \o RowsWhere(Tail(rows), col, value)

\* int(x.get('stop_sequence', default)): None stands for the ValueError
SequenceKey(st, default) ==
    IF "stop_sequence" \in DOMAIN st THEN PyInt(st["stop_sequence"]) ELSE Some(default)

\* list.sort(key = ...) on keys that all converted; stable
RECURSIVE InsertBySequence(_, _)
InsertBySequence(q, x) ==
    IF q = <<>> THEN <<x>>
    ELSE IF SequenceKey(x, 0)[1] < SequenceKey(Head(q), 0)[1] THEN <<x>> \o q
    ELSE <<Head(q)>> \o InsertBySequence(Tail(q), x)

RECURSIVE SortBySequence(_)
SortBySequence(q) ==
    IF q = <<>> THEN <<>>
    ELSE TheOne({ InsertBySequence(sorted, q[Len(q)]) :
                    sorted \in {SortBySequence(SubSeq(q, 1, Len(q) - 1))} })

\* next((s for s in stops_data if s.get('stop_id') == id), {}).get('stop_name', 'N/A')
StopName(sps, stop_id) ==
    LET found == RowsWhere(sps, "stop_id", stop_id)
    IN  IF found # <<>> /\ "stop_name" \in DOMAIN found[1] THEN found[1]["stop_name"] ELSE "N/A"

\* lines 399-402 and 415: duration_minutes in hundredths of a minute, or None
TripDuration(first_stop, last_stop) ==
    LET dep_sec == parse_time_to_seconds(GetText(first_stop, "departure_time"))
        arr_sec == parse_time_to_seconds(GetText(last_stop, "arrival_time"))
        duration_sec == IF Truthy(arr_sec) /\ Truthy(dep_sec)
                        THEN Some(arr_sec[1] - dep_sec[1]) ELSE None
    IN  IF Truthy(duration_sec) THEN Some(RoundedMinutes(duration_sec[1], 1, FALSE))
        ELSE None

\* lines 391-417: the entry of a trip whose stop-times, sorted, are given
TripDetail(trip, sorted, sps) ==
    LET first_stop == sorted[1]
        last_stop == sorted[Len(sorted)]
    IN  [trip_id |-> Get(trip, "trip_id"),
         service_id |-> Get(trip, "service_id"),
         direction_id |-> Get(trip, "direction_id"),
         trip_headsign |-> Get(trip, "trip_headsign"),
         first_stop_id |-> Get(first_stop, "stop_id"),
         first_stop_name |-> StopName(sps, Get(first_stop, "stop_id")),
         last_stop_id |-> Get(last_stop, "stop_id"),
         last_stop_name |-> StopName(sps, Get(last_stop, "stop_id")),
         departure_time |-> Get(first_stop, "departure_time"),
         arrival_time |-> Get(last_stop, "arrival_time"),
         duration_minutes |-> TripDuration(first_stop, last_stop),
         num_stops |-> Len(sorted)]

\* lines 384-417: trips_with_details; a trip without stop-times has no entry
RECURSIVE TripsWithDetails(_, _, _)
TripsWithDetails(route_trips, sts, sps) ==
    IF route_trips = <<>> THEN <<>>
    ELSE TheOne({ IF trip_stop_times = <<>> THEN <<>>
                  ELSE <<TripDetail(Head(route_trips), SortBySequence(trip_stop_times), sps)>> :
                  trip_stop_times \in
                      {RowsWhere(sts, "trip_id", Get(Head(route_trips), "trip_id"))} })
         \o TripsWithDetails(Tail(route_trips), sts, sps)

\* lines 421-424
RECURSIVE RouteStopTimes(_, _)
RouteStopTimes(sts, trip_ids) ==
    IF sts = <<>> THEN <<>>
    ELSE (IF Get(Head(sts), "trip_id") \in trip_ids THEN <<Head(sts)>> ELSE <<>>)
         \o RouteStopTimes(Tail(sts), trip_ids)

\* lines 430-436: the values of first_stops_by_trip in the order the trips
\* were first met.  A stop-time replaces the one kept for its trip when its
\* stop_sequence is smaller.
RECURSIVE FirstStopsByTrip(_, _)
FirstStopsByTrip(rows, kept) ==
    IF rows = <<>> THEN kept
    ELSE LET st == Head(rows)
             same == { k \in 1..Len(kept) : Get(kept[k], "trip_id") = Get(st, "trip_id") }
         IN  TheOne({ FirstStopsByTrip(Tail(rows), next) :
                 next \in { IF same = {} THEN Append(kept, st)
                            ELSE LET k == CHOOSE j \in same : TRUE
                                 IN  IF SequenceKey(st, 999)[1] < SequenceKey(kept[k], 999)[1]
                                     THEN [kept EXCEPT ![k] = st]
                                     ELSE kept } })

\* lines 438-442: first_stop_times before the sort
RECURSIVE FirstStopTimes(_)
FirstStopTimes(first_stops) ==
    IF first_stops = <<>> THEN <<>>
    ELSE TheOne({ IF Truthy(dep_sec) THEN <<dep_sec[1]>> ELSE <<>> :
                  dep_sec \in {parse_time_to_seconds(GetText(Head(first_stops), "departure_time"))} })
         \o FirstStopTimes(Tail(first_stops))

\* lines 427-450 and 456: avg_headway_minutes in hundredths of a minute, or
\* None when there is no positive gap
RouteAvgHeadway(route_stop_times, tie_up) ==
    TheOne({ IF first_stop_headways = <<>> THEN None
             ELSE Some(RoundedMinutes(SumSeq(first_stop_headways),
                                      Len(first_stop_headways), tie_up)) :
             first_stop_headways \in
                 { PositiveGaps(times) :
                     times \in { SortInts(unsorted) :
                         unsorted \in { FirstStopTimes(first_stops) :
                             first_stops \in {FirstStopsByTrip(route_stop_times, <<>>)} } } } })

\* int() raises ValueError on the stop_sequence of a stop-time that the
\* handler sorts or compares
SequenceRaises(route_stop_times) ==
    \E i \in 1..Len(route_stop_times) : SequenceKey(route_stop_times[i], 0) = None

\* The whole handler.  The averages and durations are in hundredths of a minute.
GetRouteDetailsHandler(rs, trs, sts, sps, route_id, tie_up) ==
    IF route_id = "" \/ route_id = "undefined"
    THEN [status |-> 400, body |-> [error |-> "Invalid route_id"]]
    ELSE IF RowsWhere(rs, "route_id", Some(route_id)) = <<>>
    THEN [status |-> 404, body |-> [error |-> "Route not found"]]
    ELSE TheOne({
        IF SequenceRaises(route_stop_times)
        THEN [status |-> 500, body |-> [error |-> "Error loading route details"]]
        ELSE [status |-> 200,
              body |-> [route |-> RowsWhere(rs, "route_id", Some(route_id))[1],
                        total_trips |-> Len(RowsWhere(trs, "route_id", Some(route_id))),
                        trips |-> TripsWithDetails(
                                      RowsWhere(trs, "route_id", Some(route_id)), sts, sps),
                        avg_headway_minutes |-> RouteAvgHeadway(route_stop_times, tie_up),
                        total_stops |->
                            Cardinality({ Get(route_stop_times[i], "stop_id") :
                                            i \in 1..Len(route_stop_times) })]] :
        route_stop_times \in
            { RouteStopTimes(sts, { Get(route_trips[i], "trip_id") : i \in 1..Len(route_trips) }) :
                route_trips \in {RowsWhere(trs, "route_id", Some(route_id))} } })

----------------------------------------------------------------------------
(* Metric engine: get_route_stats, get_route_stops *)

\* lines 482-485: service_counts, by trip.get('service_id', 'unknown')
ServiceCounts(route_trips) ==
    LET key(i) == IF "service_id" \in DOMAIN route_trips[i]
                  THEN route_trips[i]["service_id"] ELSE "unknown"
    IN  [k \in { key(i) : i \in 1..Len(route_trips) } |->
            Cardinality({ i \in 1..Len(route_trips) : key(i) = k })]

\* The whole handler (nothing in its try block raises on these tables).
GetRouteStatsHandler(trs, sts, route_id) ==
    IF route_id = "" \/ route_id = "undefined"
    THEN [status |-> 200, body |-> [total_trips |-> 0, trips_by_service |-> <<>>]]
    ELSE LET route_trips == RowsWhere(trs, "route_id", Some(route_id))
         IN  [status |-> 200,
              body |-> [total_trips |-> Len(route_trips),
                        trips_by_service |-> ServiceCounts(route_trips)]]

\* float(text) of a coordinate written as a whole number, None for the
\* ValueError of any other text of these tables
PyFloat(s) == PyInt(s)

\* lines 345-355: the coordinates of a stop as floats, or None
WithFloats(stop) ==
    [c \in DOMAIN stop |->
        IF c \in {"stop_lat", "stop_lon"} THEN PyFloat(stop[c]) ELSE stop[c]]

\* line 342 and 345-355
RECURSIVE RouteStops(_, _)
RouteStops(sps, route_stop_ids) ==
    IF sps = <<>> THEN <<>>
    ELSE (IF Get(Head(sps), "stop_id") \in route_stop_ids
          THEN <<WithFloats(Head(sps))>> ELSE <<>>)
         \o RouteStops(Tail(sps), route_stop_ids)

\* The whole handler.  trip['trip_id'] and st['stop_id'] raise KeyError on a
\* table without that column, and the except block answers [].
GetRouteStopsHandler(trs, sts, sps, route_id) ==
    IF route_id = "" \/ route_id = "undefined" THEN [status |-> 200, body |-> <<>>]
    ELSE LET route_trips == RowsWhere(trs, "route_id", Some(route_id))
             route_trip_ids == { Get(route_trips[i], "trip_id") : i \in 1..Len(route_trips) }
             route_stop_times == RouteStopTimes(sts, route_trip_ids)
             route_stop_ids == { Get(route_stop_times[i], "stop_id") :
                                   i \in 1..Len(route_stop_times) }
         IN  IF None \in route_trip_ids \/ None \in route_stop_ids
             THEN [status |-> 200, body |-> <<>>]
             ELSE [status |-> 200, body |-> RouteStops(sps, route_stop_ids)]

----------------------------------------------------------------------------
(* Path builder: get_route_path *)

\* The cell of a row that is shorter than the header: csv.DictReader fills
\* it with None and load_csv keeps it.
NoneCell == <<"None">>

\* float(stop.get(col, 0)), None for the ValueError of a text that is not a
\* number and for the TypeError of a None cell
CoordFloat(stop, col) ==
    IF col \notin DOMAIN stop THEN Some(0)
    ELSE IF stop[col] = NoneCell THEN None
    ELSE PyFloat(stop[col])

\* max(trip_paths.keys(), key=lambda tid: len(trip_paths[tid])) over the keys
\* in insertion order: the first key of a largest group
best_trip_id(tids, rows) ==
    LET size == [i \in 1..Len(tids) |-> Len(RowsWhere(rows, "trip_id", Some(tids[i])))]
    IN  tids[CHOOSE i \in 1..Len(tids) :
                /\ \A j \in 1..Len(tids) : size[j] <= size[i]
                /\ \A j \in 1..(i - 1) : size[j] < size[i]]

\* lines 537-552 for one stop-time: the point appended, if any
PathPoint(st, sps) ==
    TheOne({ IF found = <<>> THEN <<>>
             ELSE TheOne({ IF ll[1] # None /\ ll[2] # None /\ ll[1] # Some(0) /\ ll[2] # Some(0)
                           THEN <<[coordinate |-> <<ll[1][1], ll[2][1]>>,
                                   stop_id |-> Get(st, "stop_id"),
                                   stop_name |-> Get(found[1], "stop_name"),
                                   stop_sequence |-> SequenceKey(st, 0)[1]]>>
                           ELSE <<>> :
                           ll \in {<<CoordFloat(found[1], "stop_lat"),
                                     CoordFloat(found[1], "stop_lon")>>} }) :
             found \in {RowsWhere(sps, "stop_id", Get(st, "stop_id"))} })

\* lines 533-552
RECURSIVE PathPoints(_, _)
PathPoints(ordered_stops, sps) ==
    IF ordered_stops = <<>> THEN <<>>
    ELSE PathPoint(Head(ordered_stops), sps) \o PathPoints(Tail(ordered_stops), sps)

\* lines 554-559
PathBody(route_id, points) ==
    [route_id |-> route_id,
     coordinates |-> [i \in 1..Len(points) |-> points[i].coordinate],
     stops |-> [i \in 1..Len(points) |->
                  [stop_id |-> points[i].stop_id, stop_name |-> points[i].stop_name,
                   stop_sequence |-> points[i].stop_sequence]],
     total_stops |-> Len(points)]

\* The whole handler.  Nothing catches the ValueError that int() raises in
\* the sort key of line 524: the request is answered 500.
GetRoutePathHandler(trs, sts, sps, route_id) ==
    TheOne({
        IF route_trips = <<>>
        THEN [status |-> 404, body |-> [error |-> "No trips found for route"]]
        ELSE TheOne({
            IF SequenceRaises(route_stop_times)
            THEN [status |-> 500, body |-> [error |-> "Internal Server Error"]]
            ELSE IF route_stop_times = <<>>
            THEN [status |-> 404, body |-> [error |-> "No path found for route"]]
            ELSE [status |-> 200,
                  body |-> PathBody(route_id,
                      PathPoints(
                          SortBySequence(
                              RowsWhere(route_stop_times, "trip_id",
                                  Some(best_trip_id(TripIdsInOrder(route_stop_times, {}),
                                                    route_stop_times)))),
                          sps))] :
            route_stop_times \in
                { RouteStopTimes(sts, { Get(route_trips[i], "trip_id") :
                                          i \in 1..Len(route_trips) }) } }) :
        route_trips \in {RowsWhere(trs, "route_id", Some(route_id))} })

----------------------------------------------------------------------------
(* Path builder: get_all_route_paths.  Lines 650-651 of the source are an   *)
(* "if trip_id:" without a body; trip_id is a key of stop_times_by_trip    *)
(* there, never empty, so the grouping is the same with or without the     *)
(* test.  route_trip_ids is a set of strings: the order in which the loop  *)
(* of line 637 meets its elements depends on the hash seed of the process, *)
(* and is an input (order) of the handler here.                            *)

\* lines 587-591: the row a stop_id is mapped to, the last one written
stops_dict(sps) ==
    LET ok == { i \in 1..Len(sps) : "stop_id" \in DOMAIN sps[i] /\ sps[i]["stop_id"] # "" }
    IN  [id \in { sps[i]["stop_id"] : i \in ok } |->
            sps[CHOOSE i \in ok : /\ sps[i]["stop_id"] = id
                                  /\ \A j \in ok : sps[j]["stop_id"] = id => j <= i]]

\* lines 602-618: the route_id of a routes row, None when the row is skipped
RowRouteId(route) ==
    LET first_of(cols) ==
            IF \E k \in 1..Len(cols) : cols[k] \in DOMAIN route /\ route[cols[k]] # ""
            THEN Some(route[cols[CHOOSE k \in 1..Len(cols) :
                               /\ cols[k] \in DOMAIN route /\ route[cols[k]] # ""
                               /\ \A j \in 1..(k - 1) :
                                     ~(cols[j] \in DOMAIN route /\ route[cols[j]] # "")]])
            ELSE None
    IN  IF "route_id" \in DOMAIN route THEN first_of(<<"route_id">>)
        ELSE first_of(<<"route_short_name", "Route ID", "id">>)

\* lines 622-628
route_trip_ids(trs, route_id) ==
    { trs[i]["trip_id"] :
        i \in { j \in 1..Len(trs) : /\ Get(trs[j], "route_id") = Some(route_id)
                                    /\ "trip_id" \in DOMAIN trs[j]
                                    /\ trs[j]["trip_id"] # "" } }

\* the elements of a set in the order a loop meets them, given an order of
\* all ids
RECURSIVE InOrder(_, _)
InOrder(order, ids) ==
    IF order = <<>> THEN <<>>
    ELSE (IF Head(order) \in ids THEN <<Head(order)>> ELSE <<>>) \o InOrder(Tail(order), ids)

\* lines 636-639: the stop-times of the trips, trip by trip
RECURSIVE BatchStopTimes(_, _)
BatchStopTimes(tids, sts) ==
    IF tids = <<>> THEN <<>>
    ELSE RowsWhere(sts, "trip_id", Some(Head(tids))) \o BatchStopTimes(Tail(tids), sts)

\* int(x.get('stop_sequence', 0) or 0): None stands for the ValueError
BatchSequenceKey(st) ==
    IF "stop_sequence" \notin DOMAIN st \/ st["stop_sequence"] = <<>> THEN Some(0)
    ELSE PyInt(st["stop_sequence"])

RECURSIVE InsertByBatchKey(_, _)
InsertByBatchKey(q, x) ==
    IF q = <<>> THEN <<x>>
    ELSE IF BatchSequenceKey(x)[1] < BatchSequenceKey(Head(q))[1] THEN <<x>> \o q
    ELSE <<Head(q)>> \o InsertByBatchKey(Tail(q), x)

RECURSIVE SortByBatchKey(_)
SortByBatchKey(q) ==
    IF q = <<>> THEN <<>>
    ELSE TheOne({ InsertByBatchKey(sorted, q[Len(q)]) :
                    sorted \in {SortByBatchKey(SubSeq(q, 1, Len(q) - 1))} })

\* lines 656-661: a trip whose sort raises is left in file order
BatchSorted(rows) ==
    IF \E i \in 1..Len(rows) : BatchSequenceKey(rows[i]) = None THEN rows
    ELSE SortByBatchKey(rows)

\* line 691
ValidCoordinate(lat, lon) ==
    /\ 0 - 90 <= lat /\ lat <= 90
    /\ 0 - 180 <= lon /\ lon <= 180
    /\ (lat # 0 \/ lon # 0)

\* stop.get(col, '0'), before the strip
CoordCell(stop, col) == IF col \in DOMAIN stop THEN stop[col] ELSE <<"0">>

\* the stop a stop-time resolves to (lines 672-677), None when it is skipped
BatchStop(st, dict) ==
    IF "stop_id" \in DOMAIN st /\ st["stop_id"] # "" /\ st["stop_id"] \in DOMAIN dict
    THEN Some(dict[st["stop_id"]])
    ELSE None

\* lines 681-682 raise AttributeError on a None cell; the handlers of line
\* 695 do not catch it
BatchPointRaises(st, dict) ==
    /\ BatchStop(st, dict) # None
    /\ NoneCell \in { CoordCell(BatchStop(st, dict)[1], "stop_lat"),
                      CoordCell(BatchStop(st, dict)[1], "stop_lon") }

\* lines 672-697 for one stop-time that does not raise: the coordinate
\* appended, if any
BatchPoint(st, dict) ==
    IF BatchStop(st, dict) = None THEN <<>>
    ELSE TheOne({
        IF Strip(cells[1]) = <<>> \/ Strip(cells[2]) = <<>> THEN <<>>
        ELSE TheOne({ IF ll[1] # None /\ ll[2] # None /\ ValidCoordinate(ll[1][1], ll[2][1])
                      THEN <<<<ll[1][1], ll[2][1]>>>>
                      ELSE <<>> :
                      ll \in {<<PyFloat(Strip(cells[1])), PyFloat(Strip(cells[2]))>>} }) :
        cells \in {<<CoordCell(BatchStop(st, dict)[1], "stop_lat"),
                     CoordCell(BatchStop(st, dict)[1], "stop_lon")>>} })

RECURSIVE path_coordinates(_, _)
path_coordinates(ordered_stops, dict) ==
    IF ordered_stops = <<>> THEN <<>>
    ELSE BatchPoint(Head(ordered_stops), dict) \o path_coordinates(Tail(ordered_stops), dict)

\* lines 600-715 for one routes row: the entry appended to all_paths, if any.
\* An exception inside the try block skips the route.
BatchEntry(route, trs, sts, dict, order) ==
    IF RowRouteId(route) = None THEN <<>>
    ELSE TheOne({
        IF route_stop_times = <<>> THEN <<>>
        ELSE TheOne({
            IF \E i \in 1..Len(ordered_stops) : BatchPointRaises(ordered_stops[i], dict)
            THEN <<>>
            ELSE TheOne({ IF Len(coordinates) >= 2
                          THEN <<[route_id |-> RowRouteId(route)[1], route |-> route,
                                  coordinates |-> coordinates,
                                  total_stops |-> Len(coordinates)]>>
                          ELSE <<>> :
                          coordinates \in {path_coordinates(ordered_stops, dict)} }) :
            ordered_stops \in
                { BatchSorted(RowsWhere(route_stop_times, "trip_id",
                      Some(best_trip_id(TripIdsInOrder(route_stop_times, {}),
                                        route_stop_times)))) } }) :
        route_stop_times \in
            { BatchStopTimes(InOrder(order, route_trip_ids(trs, RowRouteId(route)[1])), sts) } })

RECURSIVE all_paths(_, _, _, _, _)
all_paths(rs, trs, sts, dict, order) ==
    IF rs = <<>> THEN <<>>
    ELSE BatchEntry(Head(rs), trs, sts, dict, order)
         \o all_paths(Tail(rs), trs, sts, dict, order)

\* The whole handler.  routes_exists is os.path.exists(routes_file).
GetAllRoutePathsHandler(routes_exists, rs, trs, sts, sps, order) ==
    IF ~routes_exists \/ rs = <<>> THEN [status |-> 200, body |-> <<>>]
    ELSE [status |-> 200,
          body |-> TheOne({ all_paths(rs, trs, sts, dict, order) :
                              dict \in {stops_dict(sps)} })]

\* GET /api/trips
GetTripsHandler(trs) == [status |-> 200, body |-> trs]

----------------------------------------------------------------------------
(* Mutation applier: update_route *)

RouteAttrs ==
    {"route_short_name", "route_long_name", "route_color", "route_desc"}

\* index of the first row whose route_id equals rid, 0 when there is none
\* (the for loop with its break)
FindRoute(rows, rid) ==
    LET hits == { i \in 1..Len(rows) : Get(rows[i], "route_id") = Some(rid) }
    IN  IF hits = {} THEN 0 ELSE CHOOSE i \in hits : \A j \in hits : i <= j

\* the four "if ... in data" assignments on the row found
EditRow(row, data) ==
    LET supplied == RouteAttrs \cap DOMAIN data
    IN  [c \in DOMAIN row \cup supplied |->
            IF c \in supplied THEN data[c] ELSE row[c]]

ApplyRouteEdit(rows, rid, data) ==
    LET i == FindRoute(rows, rid)
    IN  [rows EXCEPT ![i] = EditRow(rows[i], data)]

\* "'stops' in data and data['stops']"
HasStops(data) == "stops" \in DOMAIN data /\ data["stops"] # <<>>

\* {trip['trip_id'] for trip in trips_data if trip.get('route_id') == route_id}
RouteTripIds(trs, rid) ==
    { trs[i]["trip_id"] : i \in { j \in 1..Len(trs) : Get(trs[j], "route_id") = Some(rid) } }

\* {stop['stop_id']: stop['stop_sequence'] for stop in data['stops']}:
\* a later entry for the same stop_id overwrites an earlier one
NewSequence(stoplist) ==
    [sid \in { stoplist[i].stop_id : i \in 1..Len(stoplist) } |->
        LET last == CHOOSE i \in 1..Len(stoplist) :
                        /\ stoplist[i].stop_id = sid
                        /\ \A j \in 1..Len(stoplist) :
                              stoplist[j].stop_id = sid => j <= i
        IN  stoplist[last].stop_sequence]

\* the loop over stop_times_data for the trip chosen
ApplyStopSequence(sts, trip_id, new_sequence) ==
    [i \in 1..Len(sts) |->
        IF /\ Get(sts[i], "trip_id") = Some(trip_id)
           /\ "stop_id" \in DOMAIN sts[i]
           /\ sts[i]["stop_id"] \in DOMAIN new_sequence
        THEN [c \in DOMAIN sts[i] \cup {"stop_sequence"} |->
                 IF c = "stop_sequence"
                 THEN PyStr(new_sequence[sts[i]["stop_id"]])
                 ELSE sts[i][c]]
        ELSE sts[i]]

\* The first phase of the handler, up to the in-memory edit: the response
\* it ends with (0 when it goes on) and the edited rows.
UpdateRouteEdit(rs, rid, data) ==
    IF DOMAIN data = {} \/ "route_id" \notin DOMAIN data
    THEN [status |-> 400, rows |-> rs]
    ELSE IF FindRoute(rs, rid) = 0
    THEN [status |-> 404, rows |-> rs]
    ELSE [status |-> 0, rows |-> ApplyRouteEdit(rs, rid, data)]

\* The stop-sequence phase on the tables just loaded, for the trip that
\* next(iter(route_trip_ids)) yields: the stop_times file afterwards.
UpdateStopTimes(sts, first_trip_id, data) ==
    LET edited == ApplyStopSequence(sts, first_trip_id, NewSequence(data["stops"]))
    IN  IF edited = <<>> THEN [raised |-> FALSE, file |-> sts]
        ELSE WriteCsv(edited)

\* UpdateRouteHandler with the not-found return placed after the
\* stop-sequence phase instead of before the first write.
UpdateRouteHandler_LateNotFound(rs, trs, sts, rid, data, first_trip_id) ==
    LET e == UpdateRouteEdit(rs, rid, data)
        w == IF e.status = 0 THEN WriteCsv(e.rows) ELSE [raised |-> FALSE, file |-> rs]
    IN  IF e.status = 400
        THEN [status |-> 400, routes |-> rs, stop_times |-> sts]
        ELSE IF w.raised
        THEN [status |-> 500, routes |-> w.file, stop_times |-> sts]
        ELSE IF ~HasStops(data) \/ RouteTripIds(trs, rid) = {}
        THEN [status |-> IF e.status = 0 THEN 200 ELSE e.status,
              routes |-> w.file, stop_times |-> sts]
        ELSE LET u == UpdateStopTimes(sts, first_trip_id, data)
             IN  [status |-> IF u.raised THEN 500
                             ELSE IF e.status = 0 THEN 200 ELSE e.status,
                  routes |-> w.file, stop_times |-> u.file]

\* The whole handler run alone.  first_trip_id is the element that the
\* iteration over the set route_trip_ids yields first (string hashing is
\* randomised per process, so any element may come first).
UpdateRouteHandler(rs, trs, sts, rid, data, first_trip_id) ==
    LET e == UpdateRouteEdit(rs, rid, data)
        w == WriteCsv(e.rows)
    IN  IF e.status # 0
        THEN [status |-> e.status, routes |-> rs, stop_times |-> sts]
        ELSE IF w.raised
        THEN [status |-> 500, routes |-> w.file, stop_times |-> sts]
        ELSE IF ~HasStops(data) \/ RouteTripIds(trs, rid) = {}
        THEN [status |-> 200, routes |-> w.file, stop_times |-> sts]
        ELSE LET u == UpdateStopTimes(sts, first_trip_id, data)
             IN  [status |-> IF u.raised THEN 500 ELSE 200,
                  routes |-> w.file, stop_times |-> u.file]

\* the choices the set iteration has for first_trip_id ("-" when unused)
FirstTripChoices(trs, rid) ==
    IF RouteTripIds(trs, rid) = {} THEN {"-"} ELSE RouteTripIds(trs, rid)

----------------------------------------------------------------------------
(* Ingestion: upload_gtfs, reload_gtfs_upload, delete_gtfs_upload.         *)
(* Here a file's content is named by the upload it came from (src; 0 is    *)
(* the data on disk at start) and by whether it has rows (rows: 0 or 1).   *)
(* An archive maps the tables it holds to whether each has rows.           *)
(* uploads maps the ids of the gtfs_uploads records to                     *)
(* [status, stored], stored[t] = 1 when the database holds rows of table t *)
(* for that upload.                                                        *)

\* required_files, in the order the handler extracts and copies them
RequiredFiles == <<"stops.txt", "routes.txt", "trips.txt", "stop_times.txt">>

Tables == { RequiredFiles[i] : i \in 1..Len(RequiredFiles) }

\* the order in which reload_gtfs_upload exports the tables
ReloadOrder == <<"routes.txt", "trips.txt", "stops.txt", "stop_times.txt">>

Content(src, rows) == [src |-> src, rows |-> rows]

\* missing_files
MissingFiles(archive) == Tables \ DOMAIN archive

\* the database operations of upload_gtfs that may raise
DbOps == {"create", "routes", "stops", "status"}

\* the id the database gives a new gtfs_uploads record (an INTEGER PRIMARY
\* KEY without AUTOINCREMENT: one more than the largest id in the table)
NewId(ups) ==
    IF DOMAIN ups = {} THEN 1
    ELSE 1 + CHOOSE m \in DOMAIN ups : \A k \in DOMAIN ups : k <= m

NoRows == [t \in Tables |-> 0]

\* lines 943-957: the record is created with status 'Processing'
CreateUpload(ups, id) ==
    [k \in DOMAIN ups \cup {id} |->
        IF k = id THEN [status |-> "Processing", stored |-> NoRows] ELSE ups[k]]

\* lines 973-975: one extracted file is copied over the active file
CopyFile(fs, t, id, archive) == [fs EXCEPT ![t] = Content(id, archive[t])]

RECURSIVE CopyFiles(_, _, _, _)
CopyFiles(fs, order, id, archive) ==
    IF order = <<>> THEN fs
    ELSE CopyFiles(CopyFile(fs, Head(order), id, archive), Tail(order), id, archive)

\* lines 984-1049: the rows of table t are stored when the file has rows
\* and the insert does not raise; an exception is printed and dropped.
\* Only routes and stops are stored: trips and stop_times are skipped.
StoreRows(ups, id, t, archive, failed) ==
    IF archive[t] > 0 /\ ~failed
    THEN [ups EXCEPT ![id].stored[t] = 1]
    ELSE ups

\* lines 1051-1069: the record is marked 'Parsed'
MarkParsed(ups, id, failed) ==
    IF id \in DOMAIN ups /\ ~failed THEN [ups EXCEPT ![id].status = "Parsed"] ELSE ups

Result(status, fs, ups, act) ==
    [status |-> status, files |-> fs, uploads |-> ups, active |-> act]

\* UploadHandler with the extracted files copied into place before the
\* check for missing required files.
UploadHandler_CopyBeforeCheck(fs, ups, act, is_zip, archive, fails) ==
    IF ~is_zip THEN Result(400, fs, ups, act)
    ELSE LET id == NewId(ups)
             f1 == [t \in Tables |->
                      IF t \in DOMAIN archive THEN Content(id, archive[t]) ELSE fs[t]]
         IN  IF MissingFiles(archive) # {} THEN Result(400, f1, ups, act)
             ELSE IF "create" \in fails THEN Result(500, fs, ups, act)
             ELSE LET u1 == CreateUpload(ups, id)
                      u2 == StoreRows(u1, id, "routes.txt", archive, "routes" \in fails)
                      u3 == StoreRows(u2, id, "stops.txt", archive, "stops" \in fails)
                      u4 == MarkParsed(u3, id, "status" \in fails)
                  IN  Result(200, f1, u4, Some(id))

\* The whole upload handler.  fails is the set of database operations that
\* raise during this request.
UploadHandler(fs, ups, act, is_zip, archive, fails) ==
    IF ~is_zip THEN Result(400, fs, ups, act)
    ELSE IF MissingFiles(archive) # {} THEN Result(400, fs, ups, act)
    ELSE IF "create" \in fails THEN Result(500, fs, ups, act)
    ELSE LET id == NewId(ups)
             u1 == CreateUpload(ups, id)
             f1 == CopyFiles(fs, RequiredFiles, id, archive)
             u2 == StoreRows(u1, id, "routes.txt", archive, "routes" \in fails)
             u3 == StoreRows(u2, id, "stops.txt", archive, "stops" \in fails)
             u4 == MarkParsed(u3, id, "status" \in fails)
         IN  Result(200, f1, u4, Some(id))

\* lines 1176-1237 for one table: the file is rewritten from the database
\* rows of the upload only when there are such rows
ExportTable(fs, ups, id, t) ==
    IF ups[id].stored[t] > 0 THEN [fs EXCEPT ![t] = Content(id, 1)] ELSE fs

RECURSIVE ExportTables(_, _, _, _)
ExportTables(fs, ups, id, order) ==
    IF order = <<>> THEN fs
    ELSE ExportTables(ExportTable(fs, ups, id, Head(order)), ups, id, Tail(order))

\* The whole reload handler.  get_or_404's NotFound is caught by the
\* handler's "except Exception" and answered 500.
ReloadHandler(fs, ups, act, id) ==
    IF id \notin DOMAIN ups THEN Result(500, fs, ups, act)
    ELSE Result(200, ExportTables(fs, ups, id, ReloadOrder), ups, Some(id))

\* The whole delete handler: the record goes, and its rows with it
\* (cascade); a failing commit is rolled back and answered 500.
DeleteHandler(fs, ups, act, id, failed) ==
    IF id \notin DOMAIN ups \/ failed THEN Result(500, fs, ups, act)
    ELSE Result(200, fs, [k \in DOMAIN ups \ {id} |-> ups[k]], act)

----------------------------------------------------------------------------
(* Ingestion requests handled one at a time *)

MaxUploads == 2

ArchiveOf(present, route_rows, stop_rows) ==
    [t \in present |->
        IF t = "routes.txt" THEN route_rows
        ELSE IF t = "stops.txt" THEN stop_rows
        ELSE 1]

\* archives with every table (routes and stops with or without rows) and
\* archives that lack some tables
Archives ==
    { ArchiveOf(Tables, r, s) : r \in {0, 1}, s \in {0, 1} }
    \cup { ArchiveOf(p, 1, 1) : p \in SUBSET Tables }

FullArchive == ArchiveOf(Tables, 1, 1)

UploadIds == 1..MaxUploads

InitFiles == [t \in Tables |-> Content(0, 1)]

Init ==
    /\ IdleTime /\ IdleRows /\ IdleThr
    /\ request = NoRequest /\ response = NoResponse /\ nreq = 0
    /\ files = InitFiles
    /\ uploads = <<>>
    /\ active = None

Apply(r) ==
    /\ files' = r.files
    /\ uploads' = r.uploads
    /\ active' = r.active
    /\ response' = [status |-> r.status]

\* POST /api/upload-gtfs
UploadGtfs ==
    /\ NewId(uploads) <= MaxUploads
    /\ \E is_zip \in BOOLEAN, archive \in Archives, fails \in SUBSET DbOps :
          /\ (~is_zip => archive = FullArchive)
          /\ (~is_zip \/ MissingFiles(archive) # {} => fails = {})
          /\ Apply(UploadHandler(files, uploads, active, is_zip, archive, fails))
          /\ request' = [op |-> "upload_gtfs", is_zip |-> is_zip, archive |-> archive]
    /\ UNCHANGED <<timeVars, rowVars, nreq, thr>>

\* POST /api/gtfs-uploads/<id>/reload
ReloadGtfsUpload ==
    /\ \E id \in UploadIds :
          /\ Apply(ReloadHandler(files, uploads, active, id))
          /\ request' = [op |-> "reload_gtfs_upload", upload_id |-> id]
    /\ UNCHANGED <<timeVars, rowVars, nreq, thr>>

\* DELETE /api/gtfs-uploads/<id>
DeleteGtfsUpload ==
    /\ \E id \in UploadIds, failed \in BOOLEAN :
          /\ Apply(DeleteHandler(files, uploads, active, id, failed))
          /\ request' = [op |-> "delete_gtfs_upload", upload_id |-> id]
    /\ UNCHANGED <<timeVars, rowVars, nreq, thr>>

Next == UploadGtfs \/ ReloadGtfsUpload \/ DeleteGtfsUpload

Spec == Init /\ [][Next]_vars

----------------------------------------------------------------------------
(* Ingestion with a concurrent reader.  The server handles each request in *)
(* its own thread and neither the ingestion handlers nor the queries take  *)
(* a lock, so the file copies of an upload (or the exports of a reload)    *)
(* interleave with the load_csv calls of a query.  One copy, one export    *)
(* and one load_csv are each taken as a single step.                       *)

\* the load_csv calls of get_kpis, in order (lines 189-192 and 281)
KpiLoads == <<"routes.txt", "trips.txt", "stop_times.txt", "trips.txt", "stops.txt">>

InitSwapConc ==
    /\ IdleTime /\ IdleRows /\ IdleReq
    /\ files = InitFiles
    /\ uploads = <<>>
    /\ active = None
    /\ thr = [writer |-> [pc |-> "idle"], reader |-> [pc |-> "idle"]]

WriterDone(status) == [pc |-> "idle", last |-> status]

\* upload_gtfs up to the creation of the upload record (lines 876-961)
BeginUpload ==
    /\ thr.writer.pc = "idle"
    /\ NewId(uploads) <= MaxUploads
    /\ \E archive \in Archives, fails \in SUBSET DbOps :
          /\ (MissingFiles(archive) # {} => fails = {})
          /\ IF MissingFiles(archive) # {}
             THEN /\ thr' = [thr EXCEPT !.writer = WriterDone(400)]
                  /\ UNCHANGED uploads
             ELSE IF "create" \in fails
             THEN /\ thr' = [thr EXCEPT !.writer = WriterDone(500)]
                  /\ UNCHANGED uploads
             ELSE /\ uploads' = CreateUpload(uploads, NewId(uploads))
                  /\ thr' = [thr EXCEPT !.writer =
                               [pc |-> "copy", id |-> NewId(uploads),
                                archive |-> archive, fails |-> fails, k |-> 1]]
    /\ UNCHANGED <<timeVars, rowVars, reqVars, files, active>>

\* one turn of the copy loop (lines 973-975)
CopyStep ==
    /\ thr.writer.pc = "copy"
    /\ LET w == thr.writer
       IN  /\ files' = CopyFile(files, RequiredFiles[w.k], w.id, w.archive)
           /\ thr' = [thr EXCEPT !.writer =
                        IF w.k = Len(RequiredFiles)
                        THEN [pc |-> "store", id |-> w.id, archive |-> w.archive,
                              fails |-> w.fails]
                        ELSE [w EXCEPT !.k = w.k + 1]]
    /\ UNCHANGED <<timeVars, rowVars, reqVars, uploads, active>>

\* the rest of upload_gtfs: the upload becomes active, routes and stops are
\* stored and the record is marked (lines 977-1069)
StoreAndMark ==
    /\ thr.writer.pc = "store"
    /\ LET w == thr.writer
           u2 == StoreRows(uploads, w.id, "routes.txt", w.archive, "routes" \in w.fails)
           u3 == StoreRows(u2, w.id, "stops.txt", w.archive, "stops" \in w.fails)
       IN  /\ active' = Some(w.id)
           /\ uploads' = MarkParsed(u3, w.id, "status" \in w.fails)
           /\ thr' = [thr EXCEPT !.writer = WriterDone(200)]
    /\ UNCHANGED <<timeVars, rowVars, reqVars, files>>

\* reload_gtfs_upload up to the lookup of the record (lines 1170-1172)
BeginReload ==
    /\ thr.writer.pc = "idle"
    /\ \E id \in UploadIds :
          thr' = [thr EXCEPT !.writer =
                    IF id \notin DOMAIN uploads THEN WriterDone(500)
                    ELSE [pc |-> "export", id |-> id, k |-> 1]]
    /\ UNCHANGED <<timeVars, rowVars, reqVars, dbVars>>

\* the export of one table (lines 1176-1237); after the last one the upload
\* becomes active (lines 1239-1241)
ExportStep ==
    /\ thr.writer.pc = "export"
    /\ LET w == thr.writer
       IN  /\ files' = ExportTable(files, uploads, w.id, ReloadOrder[w.k])
           /\ IF w.k = Len(ReloadOrder)
              THEN /\ active' = Some(w.id)
                   /\ thr' = [thr EXCEPT !.writer = WriterDone(200)]
              ELSE /\ active' = active
                   /\ thr' = [thr EXCEPT !.writer = [w EXCEPT !.k = w.k + 1]]
    /\ UNCHANGED <<timeVars, rowVars, reqVars, uploads>>

\* get_kpis starts: routes.txt exists (line 178)
BeginKpis ==
    /\ thr.reader.pc = "idle"
    /\ thr' = [thr EXCEPT !.reader = [pc |-> "load", k |-> 1, seen |-> <<>>]]
    /\ UNCHANGED <<timeVars, rowVars, reqVars, dbVars>>

\* one load_csv of get_kpis
KpiLoad ==
    /\ thr.reader.pc = "load"
    /\ LET r == thr.reader
           got == Append(r.seen, [table |-> KpiLoads[r.k], content |-> files[KpiLoads[r.k]]])
       IN  thr' = [thr EXCEPT !.reader =
                     IF r.k = Len(KpiLoads) THEN [pc |-> "done", seen |-> got]
                     ELSE [pc |-> "load", k |-> r.k + 1, seen |-> got]]
    /\ UNCHANGED <<timeVars, rowVars, reqVars, dbVars>>

NextSwapConc ==
    \/ BeginUpload \/ CopyStep \/ StoreAndMark
    \/ BeginReload \/ ExportStep
    \/ BeginKpis \/ KpiLoad

SpecSwapConc == InitSwapConc /\ [][NextSwapConc]_vars

----------------------------------------------------------------------------
(* Inputs of the time codec *)

MaxParts == 4

\* the hour range of the round trip, H in [0,47]
RoundTripSeconds == 48 * 3600

PartSamples ==
    { <<>>, <<"0">>, <<"0", "7">>, <<"2", "5">>, <<"x">>, <<"-", "1">>,
      <<" ", "3">>, <<"6", "1">> }

RECURSIVE Join(_)
Join(ps) ==
    IF Len(ps) = 0 THEN <<>>
    ELSE IF Len(ps) = 1 THEN ps[1]
    ELSE ps[1] \o <<":">> \o Join(Tail(ps))

PartLists == UNION { [1..k -> PartSamples] : k \in 0..MaxParts }

InitTime ==
    /\ IdleRows /\ IdleReq /\ IdleThr /\ IdleDb
    /\ \/ /\ secs = None
          /\ time_str \in { Join(ps) : ps \in PartLists }
       \/ \E n \in 0..(RoundTripSeconds - 1) :
             /\ secs = Some(n)
             /\ time_str = formatSeconds(n)
    /\ outcome = NotCalled

ParseTime ==
    /\ outcome = NotCalled
    /\ outcome' = ParseTimeCall(time_str)
    /\ UNCHANGED <<time_str, secs, rowVars, reqVars, thr, dbVars>>

NextTime == ParseTime

SpecTime == InitTime /\ [][NextTime]_vars

----------------------------------------------------------------------------
(* The route editor run one request at a time *)

MaxRoutes == 2
MaxEdits == 1

RouteBaseCols == {"route_id", "route_short_name", "route_long_name", "route_type"}

\* the headers a routes.txt may have: route_color and route_desc are optional
RouteHeaders ==
    { RouteBaseCols, RouteBaseCols \cup {"route_color"},
      RouteBaseCols \cup {"route_color", "route_desc"} }

OldVal(i) == CASE i = 1 -> "v1" [] i = 2 -> "v2" [] i = 3 -> "v3" [] OTHER -> "v4"

RouteRows(ids, header) ==
    [i \in 1..Len(ids) |->
        [c \in header |-> IF c = "route_id" THEN ids[i] ELSE OldVal(i)]]

RouteIdLists == UNION { [1..k -> {"R1", "R2"}] : k \in 0..MaxRoutes }

TripRow(t, r) == [trip_id |-> t, route_id |-> r, service_id |-> "WK"]

StopTimeRow(t, s, seq, dep) ==
    [trip_id |-> t, arrival_time |-> formatSeconds(dep),
     departure_time |-> formatSeconds(dep), stop_id |-> s,
     stop_sequence |-> PyStr(seq)]

StopRow(s, lat, lon) == [stop_id |-> s, stop_name |-> s, stop_lat |-> lat, stop_lon |-> lon]

EditTrips == << TripRow("T1", "R1"), TripRow("T2", "R1"), TripRow("T3", "R2") >>

EditStopTimes ==
    << StopTimeRow("T1", "S1", 1, 28800), StopTimeRow("T1", "S2", 2, 29400),
       StopTimeRow("T2", "S1", 1, 30600), StopTimeRow("T2", "S2", 2, 31200),
       StopTimeRow("T3", "S2", 1, 28800) >>

EditStops == << StopRow("S1", <<"1">>, <<"2">>), StopRow("S2", <<"3">>, <<"4">>) >>

StopEntry(s, n) == [stop_id |-> s, stop_sequence |-> n]

\* the stop lists a request may carry
StopListSamples ==
    { <<>>, <<StopEntry("S1", 5)>>, <<StopEntry("S2", 12)>>, <<StopEntry("S9", 5)>>,
      <<StopEntry("S1", 5), StopEntry("S2", 12)>>,
      <<StopEntry("S1", 5), StopEntry("S1", 12)>> }

\* a JSON body: route_id, the attributes of attrs set to val, and a stop
\* list when stoplist is Some(list)
MkData(rid, attrs, val, stoplist) ==
    [k \in {"route_id"} \cup attrs \cup (IF stoplist = None THEN {} ELSE {"stops"}) |->
        IF k = "stops" THEN stoplist[1]
        ELSE IF k = "route_id" THEN rid
        ELSE val]

\* a body without route_id; the empty body is [k \in {} |-> "new"]
BadData == { [k \in ks |-> "new"] : ks \in {{}, {"route_short_name"}} }

EditData(rid, val) ==
    { MkData(rid, attrs, val, None) : attrs \in SUBSET RouteAttrs }
    \cup { MkData(rid, attrs, val, Some(sl)) :
              attrs \in {{}, {"route_short_name"}}, sl \in StopListSamples }

EditRouteIds == {"R1", "R2", "R9"}

InitEdit ==
    /\ IdleTime /\ IdleReq /\ IdleThr /\ IdleDb
    /\ \E ids \in RouteIdLists, header \in RouteHeaders :
          routes = RouteRows(ids, header)
    /\ trips = EditTrips
    /\ stops = EditStops
    /\ stop_times = EditStopTimes

\* PUT /api/routes/<route_id>/update
UpdateRoute ==
    /\ nreq < MaxEdits
    /\ \E rid \in EditRouteIds :
       \E data \in EditData(rid, "new") \cup BadData :
       \E first_trip_id \in FirstTripChoices(trips, rid) :
          LET r == UpdateRouteHandler(routes, trips, stop_times, rid, data, first_trip_id)
          IN  /\ routes' = r.routes
              /\ stop_times' = r.stop_times
              /\ request' = [op |-> "update_route", route_id |-> rid, data |-> data]
              /\ response' = [status |-> r.status]
    /\ nreq' = nreq + 1
    /\ UNCHANGED <<timeVars, trips, stops, thr, dbVars>>

NextEdit == UpdateRoute

SpecEdit == InitEdit /\ [][NextEdit]_vars

----------------------------------------------------------------------------
(* The route editor under concurrent requests.  The server handles each    *)
(* request in its own thread and update_route takes no lock, so the file   *)
(* reads and writes of two requests interleave.  One load_csv and one      *)
(* rewrite of a file are each taken as a single step.                      *)

Threads == {1, 2}

ThreadVal(t) == IF t = 1 THEN "new1" ELSE "new2"

ConcData(rid, val) ==
    { MkData(rid, attrs, val, None) :
         attrs \in {{"route_short_name"}, {"route_long_name"},
                    {"route_short_name", "route_desc"}} }
    \cup { MkData(rid, {}, val, Some(<<StopEntry("S1", 5)>>)) }

IdleThread == [pc |-> "idle"]

InitEditConc ==
    /\ IdleTime /\ IdleReq /\ IdleDb
    /\ \E header \in RouteHeaders : routes = RouteRows(<<"R1", "R2">>, header)
    /\ trips = EditTrips
    /\ stops = EditStops
    /\ stop_times = EditStopTimes
    /\ thr = [t \in Threads |-> IdleThread]

Finish(t, status, rid, data) ==
    [pc |-> "done", status |-> status, route_id |-> rid, data |-> data]

\* lines 724-750: the request arrives, routes.txt is loaded and the row is
\* edited in memory
BeginUpdate(t) ==
    /\ thr[t].pc = "idle"
    /\ \E rid \in EditRouteIds :
       \E data \in ConcData(rid, ThreadVal(t)) \cup BadData :
          LET e == UpdateRouteEdit(routes, rid, data)
          IN  thr' = [thr EXCEPT ![t] =
                        IF e.status # 0 THEN Finish(t, e.status, rid, data)
                        ELSE [pc |-> "write_routes", route_id |-> rid,
                              data |-> data, rows |-> e.rows]]
    /\ UNCHANGED <<timeVars, rowVars, reqVars, dbVars>>

\* lines 753-761: routes.txt is rewritten from the thread's rows
WriteRoutes(t) ==
    /\ thr[t].pc = "write_routes"
    /\ LET w == WriteCsv(thr[t].rows)
           me == thr[t]
       IN  /\ routes' = w.file
           /\ thr' = [thr EXCEPT ![t] =
                        IF w.raised THEN Finish(t, 500, me.route_id, me.data)
                        ELSE IF ~HasStops(me.data) THEN Finish(t, 200, me.route_id, me.data)
                        ELSE [pc |-> "load_stop_times", route_id |-> me.route_id,
                              data |-> me.data]]
    /\ UNCHANGED <<timeVars, trips, stops, stop_times, reqVars, dbVars>>

\* lines 762-780: trips.txt and stop_times.txt are loaded and the chosen
\* trip's stop-times are edited in memory
LoadStopTimes(t) ==
    /\ thr[t].pc = "load_stop_times"
    /\ LET me == thr[t]
       IN  \E first_trip_id \in FirstTripChoices(trips, me.route_id) :
              thr' = [thr EXCEPT ![t] =
                        IF RouteTripIds(trips, me.route_id) = {}
                        THEN Finish(t, 200, me.route_id, me.data)
                        ELSE [pc |-> "write_stop_times", route_id |-> me.route_id,
                              data |-> me.data,
                              rows |-> ApplyStopSequence(stop_times, first_trip_id,
                                           NewSequence(me.data["stops"]))]]
    /\ UNCHANGED <<timeVars, rowVars, reqVars, dbVars>>

\* lines 782-794: stop_times.txt is rewritten from the thread's rows
WriteStopTimes(t) ==
    /\ thr[t].pc = "write_stop_times"
    /\ LET me == thr[t]
           w == IF me.rows = <<>> THEN [raised |-> FALSE, file |-> stop_times]
                ELSE WriteCsv(me.rows)
       IN  /\ stop_times' = w.file
           /\ thr' = [thr EXCEPT ![t] =
                        Finish(t, IF w.raised THEN 500 ELSE 200, me.route_id, me.data)]
    /\ UNCHANGED <<timeVars, routes, trips, stops, reqVars, dbVars>>

NextEditConc ==
    \E t \in Threads :
        BeginUpdate(t) \/ WriteRoutes(t) \/ LoadStopTimes(t) \/ WriteStopTimes(t)

SpecEditConc == InitEditConc /\ [][NextEditConc]_vars

----------------------------------------------------------------------------
(* Queries on a snapshot *)

MaxStopTimes == 3

KpiRoutes == RouteRows(<<"R1", "R2">>, RouteBaseCols)

\* T4 names a route that routes.txt does not have
KpiTrips ==
    << TripRow("T1", "R1"), TripRow("T2", "R1"), TripRow("T3", "R2"),
       TripRow("T4", "R9") >>

TimedRow(t, s, arr, dep) ==
    [trip_id |-> t, arrival_time |-> arr, departure_time |-> dep, stop_id |-> s,
     stop_sequence |-> <<"1">>]

\* the stop-time rows a snapshot is made of: departures 100 s, 900 s and
\* 903 s after 08:00:00, a repeated departure, a trip of a second route at
\* two stops (without an arrival at S2), a trip of a route without a routes
\* row, a trip without a trips row (TX) and a departure that is not a time
StopTimeSamples ==
    { TimedRow("T1", "S1", formatSeconds(28800), formatSeconds(28800)),
      TimedRow("T2", "S1", formatSeconds(28800), formatSeconds(28800)),
      TimedRow("T2", "S1", formatSeconds(28900), formatSeconds(28900)),
      TimedRow("T2", "S1", formatSeconds(29700), formatSeconds(29700)),
      TimedRow("T1", "S1", formatSeconds(29703), formatSeconds(29703)),
      TimedRow("T3", "S2", <<>>, formatSeconds(28800)),
      TimedRow("T3", "S1", formatSeconds(29400), formatSeconds(29460)),
      TimedRow("T4", "S1", formatSeconds(30600), formatSeconds(30600)),
      TimedRow("TX", "S1", formatSeconds(28900), formatSeconds(28900)),
      TimedRow("T1", "S1", formatSeconds(28800), <<"b", "a", "d">>) }

StopTimeLists == UNION { [1..k -> StopTimeSamples] : k \in 0..MaxStopTimes }

\* routes = <<>> stands for a routes.txt that is empty or missing
InitQuery ==
    /\ IdleTime /\ IdleReq /\ IdleThr /\ IdleDb
    /\ routes \in {KpiRoutes, <<>>}
    /\ trips = KpiTrips
    /\ stops = EditStops
    /\ stop_times \in StopTimeLists

\* GET /api/kpis
GetKpis ==
    /\ nreq = 0
    /\ \E routes_exists \in (IF routes = <<>> THEN BOOLEAN ELSE {TRUE}), tie_up \in BOOLEAN :
          /\ request' = [op |-> "get_kpis"]
          /\ response' = GetKpisHandler(routes_exists, routes, trips, stops, stop_times, tie_up)
    /\ nreq' = 1
    /\ UNCHANGED <<timeVars, rowVars, thr, dbVars>>

NextQuery == GetKpis

SpecQuery == InitQuery /\ [][NextQuery]_vars

----------------------------------------------------------------------------
(* The KPIs of a snapshot whose stop-times are all of one (route, stop) pair *)

MaxDepartures == 4

\* trips T1 and T2 of route R1 leaving stop S1 at 08:00:00, 08:15:00, 08:30:00
PairSamples ==
    { TimedRow(t, "S1", formatSeconds(n), formatSeconds(n)) :
        t \in {"T1", "T2"}, n \in {28800, 29700, 30600} }

InitPair ==
    /\ IdleTime /\ IdleReq /\ IdleThr /\ IdleDb
    /\ routes = KpiRoutes
    /\ trips = KpiTrips
    /\ stops = EditStops
    /\ stop_times \in UNION { [1..k -> PairSamples] : k \in 0..MaxDepartures }

NextPair == GetKpis

SpecPair == InitPair /\ [][NextPair]_vars

----------------------------------------------------------------------------
(* The departure board of a stop.  The stop-times are a few rows chosen     *)
(* freely, followed by a run of rows at stop S1 long enough to fill the     *)
(* board.                                                                   *)

MaxBoardPrefix == 3

\* rows leaving S1 at "08:05:00", "24:10:00" and "7:50:00", one without a
\* departure time, one of a trip without a trips row, and one at S2
BoardSamples ==
    { TimedRow("T1", "S1", <<"0","8",":","0","0",":","0","0">>, <<"0","8",":","0","5",":","0","0">>),
      TimedRow("T2", "S1", <<"2","4",":","0","5",":","0","0">>, <<"2","4",":","1","0",":","0","0">>),
      TimedRow("T3", "S1", <<"7",":","4","5",":","0","0">>, <<"7",":","5","0",":","0","0">>),
      TimedRow("T1", "S1", <<>>, <<>>),
      TimedRow("TX", "S1", formatSeconds(29000), formatSeconds(29000)),
      TimedRow("T2", "S2", formatSeconds(30000), formatSeconds(30000)) }

\* n rows at S1, leaving every minute after 9:00:00, latest first, the hour
\* written without its leading zero ("9:05:00")
RECURSIVE FillRows(_)
FillRows(n) ==
    IF n = 0 THEN <<>>
    ELSE <<TimedRow("T1", "S1", Tail(formatSeconds(32400 + 60 * n)),
                    Tail(formatSeconds(32400 + 60 * n)))>>
         \o FillRows(n - 1)

InitBoard ==
    /\ IdleTime /\ IdleReq /\ IdleThr /\ IdleDb
    /\ routes = KpiRoutes
    /\ trips = KpiTrips
    /\ stops = EditStops
    /\ \E prefix \in UNION { [1..k -> BoardSamples] : k \in 0..MaxBoardPrefix },
          n \in {0, BoardLimit - 1, BoardLimit} :
          stop_times = prefix \o FillRows(n)

\* GET /api/stops/<stop_id>/departures
GetStopDepartures ==
    /\ nreq = 0
    /\ \E stop_id \in {"S1", "S2", "S9"} :
          /\ request' = [op |-> "get_stop_departures", stop_id |-> stop_id]
          /\ response' = GetStopDeparturesHandler(routes, trips, stop_times, stop_id)
    /\ nreq' = 1
    /\ UNCHANGED <<timeVars, rowVars, thr, dbVars>>

NextBoard == GetStopDepartures

SpecBoard == InitBoard /\ [][NextBoard]_vars

----------------------------------------------------------------------------
(* Queries about one route or one stop *)

MaxRouteRows == 3

\* trips.txt as it is elsewhere, with an empty service_id for T2, and
\* without the service_id column
TripsTables ==
    { KpiTrips,
      [KpiTrips EXCEPT ![2] = [trip_id |-> "T2", route_id |-> "R1", service_id |-> ""]],
      [i \in 1..Len(KpiTrips) |->
          [trip_id |-> KpiTrips[i]["trip_id"], route_id |-> KpiTrips[i]["route_id"]]] }

SeqRow(t, s, seq, arr, dep) ==
    [trip_id |-> t, arrival_time |-> arr, departure_time |-> dep, stop_id |-> s,
     stop_sequence |-> seq]

\* stop-times of T1 and T2 (route R1), T3 (route R2) and T4 (route R9, which
\* routes.txt does not have); among them a trip leaving at 00:00:00, times
\* that are not times, and stop_sequence values "10", "x" and ""
RouteSamples ==
    { SeqRow("T1", "S1", <<"1">>, formatSeconds(28800), formatSeconds(28800)),
      SeqRow("T1", "S2", <<"2">>, formatSeconds(29400), formatSeconds(29460)),
      SeqRow("T1", "S2", <<"1", "0">>, <<"b", "a", "d">>, <<"b", "a", "d">>),
      SeqRow("T2", "S1", <<"1">>, formatSeconds(0), formatSeconds(0)),
      SeqRow("T2", "S2", <<"2">>, formatSeconds(600), formatSeconds(600)),
      SeqRow("T2", "S1", <<"1">>, formatSeconds(29700), formatSeconds(29700)),
      SeqRow("T1", "S1", <<"x">>, formatSeconds(29000), formatSeconds(29000)),
      SeqRow("T2", "S1", <<>>, formatSeconds(29000), formatSeconds(29000)),
      SeqRow("T3", "S1", <<"1">>, formatSeconds(32400), formatSeconds(32400)),
      SeqRow("T4", "S1", <<"1">>, formatSeconds(32400), formatSeconds(32400)) }

InitRoute ==
    /\ IdleTime /\ IdleReq /\ IdleThr /\ IdleDb
    /\ routes = KpiRoutes
    /\ trips \in TripsTables
    /\ stops = EditStops
    /\ stop_times \in UNION { [1..k -> RouteSamples] : k \in 0..MaxRouteRows }

\* the ids asked for: R0 and S9 are in no table, R9 only in trips.txt
RouteIdsAsked == {"R1", "R9", "R0"}

\* GET /api/routes/<route_id>/details
GetRouteDetails ==
    /\ nreq = 0
    /\ \E route_id \in RouteIdsAsked, tie_up \in BOOLEAN :
          /\ request' = [op |-> "get_route_details", route_id |-> route_id]
          /\ response' = GetRouteDetailsHandler(routes, trips, stop_times, stops,
                                                route_id, tie_up)
    /\ nreq' = 1
    /\ UNCHANGED <<timeVars, rowVars, thr, dbVars>>

\* GET /api/routes/<route_id>/stats
GetRouteStats ==
    /\ nreq = 0
    /\ \E route_id \in RouteIdsAsked :
          /\ request' = [op |-> "get_route_stats", route_id |-> route_id]
          /\ response' = GetRouteStatsHandler(trips, stop_times, route_id)
    /\ nreq' = 1
    /\ UNCHANGED <<timeVars, rowVars, thr, dbVars>>

\* GET /api/routes/<route_id>/stops
GetRouteStops ==
    /\ nreq = 0
    /\ \E route_id \in RouteIdsAsked :
          /\ request' = [op |-> "get_route_stops", route_id |-> route_id]
          /\ response' = GetRouteStopsHandler(trips, stop_times, stops, route_id)
    /\ nreq' = 1
    /\ UNCHANGED <<timeVars, rowVars, thr, dbVars>>

NextRoute == GetRouteDetails \/ GetRouteStats \/ GetRouteStops \/ GetStopDepartures

SpecRoute == InitRoute /\ [][NextRoute]_vars

----------------------------------------------------------------------------
(* The path builders on a snapshot *)

MaxPathRows == 4

\* stops.txt: S1 and S2 with plain coordinates, S3 on the equator (0, 10),
\* S4 at latitude 95, S5 in a row that ends before its coordinates (the lat
\* cell is None), and two rows for S6, at (5, 6) and then, under another
\* name, at (7, 8)
PathStops ==
    << StopRow("S1", <<"1">>, <<"2">>), StopRow("S2", <<"3">>, <<"4">>),
       StopRow("S3", <<"0">>, <<"1", "0">>), StopRow("S4", <<"9", "5">>, <<"1", "0">>),
       StopRow("S5", NoneCell, NoneCell),
       StopRow("S6", <<"5">>, <<"6">>),
       [StopRow("S6", <<"7">>, <<"8">>) EXCEPT !["stop_name"] = "S6b"] >>

PathRow(t, s, seq, n) == SeqRow(t, s, seq, formatSeconds(n), formatSeconds(n))

\* stop-times of T1 and T2 (route R1), T3 (route R2) and T4 (route R9, which
\* routes.txt does not have)
PathSamples ==
    { PathRow("T1", "S1", <<"1">>, 28800), PathRow("T1", "S2", <<"2">>, 29400),
      PathRow("T1", "S3", <<"3">>, 30000), PathRow("T1", "S5", <<"4">>, 30600),
      PathRow("T2", "S4", <<"1">>, 28800), PathRow("T2", "S1", <<"x">>, 29400),
      PathRow("T1", "S6", <<"5">>, 31200), PathRow("T3", "S2", <<"1">>, 28800),
      PathRow("T4", "S1", <<"1">>, 28800), PathRow("T4", "S1", <<"2">>, 29400) }

InitPath ==
    /\ IdleTime /\ IdleReq /\ IdleThr /\ IdleDb
    /\ routes = KpiRoutes
    /\ trips = KpiTrips
    /\ stops = PathStops
    /\ stop_times \in UNION { [1..k -> PathSamples] : k \in 0..MaxPathRows }

\* the ids asked for: R0 is in no table, R9 only in trips.txt
PathIdsAsked == {"R1", "R2", "R9", "R0"}

\* two of the orders in which a loop may meet the trip ids of a set: the
\* order of trips.txt and its reverse
TripOrders ==
    { [i \in 1..Len(trips) |-> trips[i]["trip_id"]],
      [i \in 1..Len(trips) |-> trips[Len(trips) + 1 - i]["trip_id"]] }

\* GET /api/routes/<route_id>/path
GetRoutePath ==
    /\ nreq = 0
    /\ \E route_id \in PathIdsAsked :
          /\ request' = [op |-> "get_route_path", route_id |-> route_id]
          /\ response' = GetRoutePathHandler(trips, stop_times, stops, route_id)
    /\ nreq' = 1
    /\ UNCHANGED <<timeVars, rowVars, thr, dbVars>>

\* GET /api/routes/paths
GetAllRoutePaths ==
    /\ nreq = 0
    /\ \E order \in TripOrders :
          /\ request' = [op |-> "get_all_route_paths"]
          /\ response' = GetAllRoutePathsHandler(TRUE, routes, trips, stop_times, stops, order)
    /\ nreq' = 1
    /\ UNCHANGED <<timeVars, rowVars, thr, dbVars>>

\* GET /api/trips
GetTrips ==
    /\ nreq = 0
    /\ request' = [op |-> "get_trips"]
    /\ response' = GetTripsHandler(trips)
    /\ nreq' = 1
    /\ UNCHANGED <<timeVars, rowVars, thr, dbVars>>

NextPath == GetRoutePath \/ GetAllRoutePaths \/ GetTrips \/ GetKpis \/ GetRouteDetails

SpecPath == InitPath /\ [][NextPath]_vars

----------------------------------------------------------------------------
(* db_operation_with_retry, one step per statement.  thr holds the locals  *)
(* of the call and counts what it did; outcome holds how the call ended.   *)
(* The operation, rollback and sleep are taken to come back.               *)

MaxRetries == 3

\* str.lower() on the letters of the messages
Lower(c) ==
    CASE c = "L" -> "l" [] c = "O" -> "o" [] c = "C" -> "c" [] c = "K" -> "k"
      [] c = "E" -> "e" [] c = "D" -> "d" [] OTHER -> c

LowerText(s) == [i \in 1..Len(s) |-> Lower(s[i])]

\* sub in s
Contains(s, sub) ==
    \E i \in 0..(Len(s) - Len(sub)) : SubSeq(s, i + 1, i + Len(sub)) = sub

\* 'locked' in str(e).lower()
MentionsLocked(e) == Contains(LowerText(e), <<"l", "o", "c", "k", "e", "d">>)

\* RetryAgain that goes on after every error while attempts remain
RetryAgain_EveryError(e, attempt, max_retries) == attempt < max_retries - 1

\* line 46: the condition under which the loop goes on
RetryAgain(e, attempt, max_retries) ==
    MentionsLocked(e) /\ attempt < max_retries - 1

\* str(e) of the exceptions the operation or the commit may raise:
\* "is locked", "LOCKED", "lock wait" and "full"
ErrorSamples ==
    { <<"i", "s", " ", "l", "o", "c", "k", "e", "d">>,
      <<"L", "O", "C", "K", "E", "D">>,
      <<"l", "o", "c", "k", " ", "w", "a", "i", "t">>,
      <<"f", "u", "l", "l">> }

\* line 50
RetriesFailed == <<"f", "a", "i", "l", "e", "d">>

InitRetry ==
    /\ IdleTime /\ IdleRows /\ IdleReq /\ IdleDb
    /\ \E max_retries \in 0..MaxRetries :
          thr = [pc |-> "for", max_retries |-> max_retries, attempt |-> 0,
                 result |-> None, e |-> None, errors |-> <<>>,
                 calls |-> 0, commits |-> 0, rollbacks |-> 0, sleeps |-> 0]

\* line 38: for attempt in range(max_retries), and line 50 behind the loop
RetryFor ==
    /\ thr.pc = "for"
    /\ IF thr.attempt < thr.max_retries
       THEN /\ thr' = [thr EXCEPT !.pc = "operation"]
            /\ UNCHANGED outcome
       ELSE /\ thr' = [thr EXCEPT !.pc = "done"]
            /\ outcome' = Raised(RetriesFailed)
    /\ UNCHANGED <<time_str, secs, rowVars, reqVars, dbVars>>

\* line 41: result = operation()
RetryOperation ==
    /\ thr.pc = "operation"
    /\ \/ thr' = [thr EXCEPT !.pc = "commit", !.calls = @ + 1,
                             !.result = Some(thr.attempt)]
       \/ \E e \in ErrorSamples :
             thr' = [thr EXCEPT !.pc = "except", !.calls = @ + 1, !.e = Some(e)]
    /\ UNCHANGED <<timeVars, rowVars, reqVars, dbVars>>

\* lines 42-43: db.session.commit() and return result
RetryCommit ==
    /\ thr.pc = "commit"
    /\ \/ /\ thr' = [thr EXCEPT !.pc = "done", !.commits = @ + 1]
          /\ outcome' = Returned(thr.result[1])
       \/ /\ \E e \in ErrorSamples :
                thr' = [thr EXCEPT !.pc = "except", !.e = Some(e)]
          /\ UNCHANGED outcome
    /\ UNCHANGED <<time_str, secs, rowVars, reqVars, dbVars>>

\* lines 44-49: rollback, then sleep and continue, or raise
RetryExcept ==
    /\ thr.pc = "except"
    /\ IF RetryAgain(thr.e[1], thr.attempt, thr.max_retries)
       THEN /\ thr' = [thr EXCEPT !.pc = "for", !.rollbacks = @ + 1,
                                  !.sleeps = @ + 1, !.attempt = @ + 1,
                                  !.errors = Append(@, thr.e[1])]
            /\ UNCHANGED outcome
       ELSE /\ thr' = [thr EXCEPT !.pc = "done", !.rollbacks = @ + 1,
                                  !.errors = Append(@, thr.e[1])]
            /\ outcome' = Raised(thr.e[1])
    /\ UNCHANGED <<time_str, secs, rowVars, reqVars, dbVars>>

NextRetry == RetryFor \/ RetryOperation \/ RetryCommit \/ RetryExcept

\* the call is sequential code: while it has a next statement it takes it
SpecRetry == InitRetry /\ [][NextRetry]_vars /\ WF_vars(NextRetry)

----------------------------------------------------------------------------
(* Claims about ingestion handled one request at a time, checked under Spec *)

\* C1: an upload whose archive lacks a required table fails and leaves the
\* active snapshot intact: the four active files, CURRENT_ACTIVE_UPLOAD_ID
\* and the upload records are unchanged (no record is created).
C1_FailedUploadKeepsSnapshot ==
    [][ ( /\ request'.op = "upload_gtfs"
          /\ request'.is_zip
          /\ MissingFiles(request'.archive) # {} )
        => /\ response'.status = 400
           /\ files' = files
           /\ active' = active
           /\ uploads' = uploads
      ]_vars

\* an archive with 3 of the 4 tables was refused while an uploaded snapshot
\* was active
C1_Witness ==
    /\ request.op = "upload_gtfs"
    /\ request.is_zip
    /\ Cardinality(DOMAIN request.archive) = 3
    /\ response.status = 400
    /\ active # None

\* C2: after any sequence of uploads and reloads the four active
\* collections originate from the same upload.
C2_SameOrigin ==
    \A t1 \in Tables, t2 \in Tables : files[t1].src = files[t2].src

----------------------------------------------------------------------------
(* Claims about ingestion with a concurrent reader, checked under SpecSwapConc *)

\* C3: a query running concurrently with an ingestion sees one snapshot:
\* the routes, trips, stops and stop_times that get_kpis loaded all belong
\* to the same upload, in every interleaving.
C3_ReaderSeesOneSnapshot ==
    thr.reader.pc = "done" =>
        \A i \in 1..Len(thr.reader.seen), j \in 1..Len(thr.reader.seen) :
            thr.reader.seen[i].content.src = thr.reader.seen[j].content.src

----------------------------------------------------------------------------
(* Claims about the route editor run alone, checked under SpecEdit *)

\* a step that handles one update_route request
UpdateRouteStep == nreq' = nreq + 1 /\ request'.op = "update_route"

\* the first trip of the route in the order of trips.txt
FirstTripInFileOrder(trs, rid) ==
    LET hits == { j \in 1..Len(trs) : Get(trs[j], "route_id") = Some(rid) }
    IN  trs[CHOOSE j \in hits : \A k \in hits : j <= k]["trip_id"]

\* C5: update_route on an existing route_id overwrites only the supplied
\* attributes of the first row with that route_id; every other column of
\* that row, every other row and the row order are unchanged, and without a
\* stop list stop_times, trips and stops are unchanged.
C5_RouteEditFrame ==
    [][ ( /\ UpdateRouteStep
          /\ "route_id" \in DOMAIN request'.data
          /\ FindRoute(routes, request'.route_id) # 0 )
        => LET data == request'.data
               i == FindRoute(routes, request'.route_id)
               supplied == RouteAttrs \cap DOMAIN data
           IN  /\ Len(routes') = Len(routes)
               /\ \A j \in 1..Len(routes) : j # i => routes'[j] = routes[j]
               /\ \A c \in DOMAIN routes[i] \ supplied :
                     c \in DOMAIN routes'[i] /\ routes'[i][c] = routes[i][c]
               /\ \A c \in supplied :
                     c \in DOMAIN routes'[i] /\ routes'[i][c] = data[c]
               /\ ~HasStops(data) =>
                     stop_times' = stop_times /\ trips' = trips /\ stops' = stops
      ]_vars

\* C6: update_route for a route_id that matches no route row writes nothing
\* (routes and stop_times stay as they are, also when the request carries a
\* stop list) and a request naming its route_id is answered 404.
C6_NotFoundNoWrite ==
    [][ (UpdateRouteStep /\ FindRoute(routes, request'.route_id) = 0)
        => /\ routes' = routes /\ stop_times' = stop_times
           /\ trips' = trips /\ stops' = stops
           /\ "route_id" \in DOMAIN request'.data => response'.status = 404
      ]_vars

\* a not-found answer to a request that carries a stop list for a route
\* whose trips exist in trips.txt
C6_Witness ==
    /\ request.op = "update_route"
    /\ response.status = 404
    /\ HasStops(request.data)
    /\ RouteTripIds(trips, request.route_id) # {}

\* C7: a stop-sequence edit changes only the stop_sequence of the
\* stop-times of the route's first trip (in trips order) whose stop_id is in
\* the supplied mapping; all other stop-times and fields are unchanged.
C7_FirstTripOnly ==
    [][ ( /\ UpdateRouteStep
          /\ response'.status = 200
          /\ HasStops(request'.data)
          /\ RouteTripIds(trips, request'.route_id) # {} )
        => LET first == FirstTripInFileOrder(trips, request'.route_id)
               listed == { request'.data["stops"][k].stop_id :
                              k \in 1..Len(request'.data["stops"]) }
           IN  /\ Len(stop_times') = Len(stop_times)
               /\ \A i \in 1..Len(stop_times) :
                     /\ DOMAIN stop_times'[i] = DOMAIN stop_times[i]
                     /\ \A c \in DOMAIN stop_times[i] \ {"stop_sequence"} :
                           stop_times'[i][c] = stop_times[i][c]
                     /\ ( stop_times[i]["trip_id"] # first
                          \/ stop_times[i]["stop_id"] \notin listed )
                        => stop_times'[i] = stop_times[i]
      ]_vars

----------------------------------------------------------------------------
(* Claims about the queries, checked under SpecQuery *)

\* the stop-time rows whose trip has a trips row (and so a route) and whose
\* departure parses
CountedRows ==
    { i \in 1..Len(stop_times) :
        /\ \E j \in 1..Len(trips) : trips[j]["trip_id"] = stop_times[i]["trip_id"]
        /\ parse_time_to_seconds(stop_times[i]["departure_time"]) # None }

\* the route a counted row belongs to
RouteOfRow(i) ==
    trips[CHOOSE j \in 1..Len(trips) : trips[j]["trip_id"] = stop_times[i]["trip_id"]]["route_id"]

PairOfRow(i) == <<RouteOfRow(i), stop_times[i]["stop_id"]>>

\* the departure seconds seen at a (route, stop) pair
PairDepartures(pair) ==
    { parse_time_to_seconds(stop_times[i]["departure_time"])[1] :
        i \in { j \in CountedRows : PairOfRow(j) = pair } }

\* the neighbours of a set of numbers: a and the next larger one
Neighbours(V) == { <<a, b>> \in V \X V : a < b /\ ~ \E c \in V : a < c /\ c < b }

\* The samples the claim describes: per pair, one for each departure second
\* and the next larger one of the pair (sorted ascending, two consecutive
\* stop-times differ by more than 0 exactly when they are such neighbours).
HeadwaySamples ==
    UNION { { <<pair, n[1], n[2]>> : n \in Neighbours(PairDepartures(pair)) } :
            pair \in { PairOfRow(i) : i \in CountedRows } }

RECURSIVE SampleSum(_)
SampleSum(S) ==
    IF S = {} THEN 0
    ELSE LET x == CHOOSE y \in S : TRUE IN (x[3] - x[2]) + SampleSum(S \ {x})

\* the list the handler averages holds each sample value as often as the
\* claim's samples do
SamplesAreTheClaimed ==
    LET headways == KpiHeadways(trips, stop_times)
    IN  /\ Len(headways) = Cardinality(HeadwaySamples)
        /\ \A k \in 1..Len(headways) :
              Cardinality({ i \in 1..Len(headways) : headways[i] = headways[k] })
                  = Cardinality({ x \in HeadwaySamples : x[3] - x[2] = headways[k] })

KpisAnswered == request = [op |-> "get_kpis"] /\ "error" \notin DOMAIN response.body

SecondsOfTrip(t) ==
    { x \in UNION { { parse_time_to_seconds(stop_times[i][c]) :
                        c \in {"arrival_time", "departure_time"} } :
                    i \in { j \in 1..Len(stop_times) : stop_times[j]["trip_id"] = t } } :
        x # None }

\* max - min over them, 0 when there is none
SpanOfTrip(t) ==
    LET S == SecondsOfTrip(t)
    IN  IF S = {} THEN 0
        ELSE LET lo == CHOOSE a \in S : \A x \in S : a[1] <= x[1]
                 hi == CHOOSE b \in S : \A x \in S : x[1] <= b[1]
             IN  hi[1] - lo[1]

\* the trips that contribute: those with a strictly positive span
TimedTrips ==
    { t \in { stop_times[i]["trip_id"] : i \in 1..Len(stop_times) } : SpanOfTrip(t) > 0 }

RECURSIVE SpanSum(_)
SpanSum(T) ==
    IF T = {} THEN 0
    ELSE LET t == CHOOSE u \in T : TRUE IN SpanOfTrip(t) + SpanSum(T \ {t})

\* C12: after GET /api/kpis, the durations averaged are, one per trip, max -
\* min over the parseable arrival and departure seconds of the trip's
\* stop-times, for exactly the trips where that is strictly positive, and the
\* average reported is the mean of those durations in minutes (to the two
\* decimals it is reported with; 0 when no trip contributes).
C12_TripDurations ==
    KpisAnswered =>
        LET trip_durations == KpiDurations(stop_times)
            reported == response.body.avg_trip_duration_minutes
            den == 60 * Cardinality(TimedTrips)
            num == 100 * SpanSum(TimedTrips)
        IN  /\ Len(trip_durations) = Cardinality(TimedTrips)
            /\ \A k \in 1..Len(trip_durations) :
                  Cardinality({ i \in 1..Len(trip_durations) :
                                  trip_durations[i] = trip_durations[k] })
                      = Cardinality({ t \in TimedTrips : SpanOfTrip(t) = trip_durations[k] })
            /\ IF TimedTrips = {} THEN reported = 0
               ELSE /\ 2 * (reported * den - num) <= den
                    /\ 2 * (num - reported * den) <= den

\* C12 witness: the KPIs of a trip with stop-times (no arrival, departure
\* 28800) and (arrival 29400, departure 29460): 660 s, reported as 11 minutes
C12_Witness ==
    /\ KpisAnswered
    /\ stop_times = << TimedRow("T3", "S2", <<>>, formatSeconds(28800)),
                       TimedRow("T3", "S1", formatSeconds(29400), formatSeconds(29460)) >>
    /\ KpiDurations(stop_times) = <<660>>
    /\ response.body.avg_trip_duration_minutes = 1100

\* C13: when GET /api/kpis is answered from a snapshot with no positive
\* headway sample, the average headway of the answer is not a number (it is
\* null or absent), and likewise the average trip duration when no trip has a
\* positive duration.
C13_NoSampleNoNumber ==
    KpisAnswered =>
        /\ HeadwaySamples = {} =>
              \/ "avg_headway_minutes" \notin DOMAIN response.body
              \/ response.body.avg_headway_minutes \notin Int
        /\ TimedTrips = {} =>
              \/ "avg_trip_duration_minutes" \notin DOMAIN response.body
              \/ response.body.avg_trip_duration_minutes \notin Int

----------------------------------------------------------------------------
(* Claims about the departure board, checked under SpecBoard *)

BoardAnswered == request.op = "get_stop_departures"

\* the board of the answer, and its departure_time strings
Board == response.body

BoardTimes == [k \in 1..Len(Board) |-> Board[k].departure_time]

\* the stop-times at the stop asked for
RowsAtStop == { i \in 1..Len(stop_times) : stop_times[i]["stop_id"] = request.stop_id }

\* a before b in the order of strings: a is a proper prefix of b, or at the
\* first place where they differ a has the character of the smaller code
LexBefore(a, b) ==
    \E k \in 1..Len(b) :
        /\ \A i \in 1..(k - 1) : i <= Len(a) /\ a[i] = b[i]
        /\ \/ k = Len(a) + 1
           \/ k <= Len(a) /\ CharCode(a[k]) < CharCode(b[k])

\* C14: the board is in ascending order of the departure_time strings
\* compared as strings, and it is the first 20 of the stop's stop-times in
\* that order: it has min(20, number of stop-times at the stop) entries, each
\* of them a stop-time at the stop (no more often than the file has it), and
\* no stop-time left out has a departure_time before one on the board.
C14_BoardOrder ==
    BoardAnswered =>
        /\ \A i, j \in 1..Len(Board) : i < j => ~LexBefore(BoardTimes[j], BoardTimes[i])
        /\ Len(Board) = IF Cardinality(RowsAtStop) < 20 THEN Cardinality(RowsAtStop) ELSE 20
        /\ \A k \in 1..Len(Board) :
              Cardinality({ i \in 1..Len(Board) :
                              /\ Board[i].trip_id = Board[k].trip_id
                              /\ Board[i].departure_time = Board[k].departure_time })
                  <= Cardinality({ i \in RowsAtStop :
                              /\ Some(stop_times[i]["trip_id"]) = Board[k].trip_id
                              /\ stop_times[i]["departure_time"] = Board[k].departure_time })
        /\ \A i \in RowsAtStop :
              Cardinality({ k \in 1..Len(Board) :
                              BoardTimes[k] = stop_times[i]["departure_time"] })
                  < Cardinality({ j \in RowsAtStop :
                              stop_times[j]["departure_time"] = stop_times[i]["departure_time"] })
              => \A k \in 1..Len(Board) :
                    ~LexBefore(stop_times[i]["departure_time"], BoardTimes[k])

\* C14 witness: the stop has "7:50:00", "24:10:00", "08:05:00" and 20 later
\* departures; the board starts "08:05:00", "24:10:00", "7:50:00" and holds
\* 20 of the 23
C14_Witness ==
    /\ BoardAnswered
    /\ Cardinality(RowsAtStop) = 23
    /\ Len(Board) = 20
    /\ stop_times[1]["departure_time"] = <<"7",":","5","0",":","0","0">>
    /\ SubSeq(BoardTimes, 1, 3) = << <<"0","8",":","0","5",":","0","0">>,
                                     <<"2","4",":","1","0",":","0","0">>,
                                     <<"7",":","5","0",":","0","0">> >>

\* C15: no entry of the board has an empty departure_time, and the board
\* holds the first 20 of the stop's stop-times that have one.
C15_NoEmptyDeparture ==
    BoardAnswered =>
        /\ \A k \in 1..Len(Board) : BoardTimes[k] # <<>>
        /\ LET timed == { i \in RowsAtStop : stop_times[i]["departure_time"] # <<>> }
           IN  Len(Board) = IF Cardinality(timed) < 20 THEN Cardinality(timed) ELSE 20

----------------------------------------------------------------------------
(* Claims about the queries on one route or stop, checked under SpecRoute *)

DetailsAsked == request.op = "get_route_details"

DetailsAnswered == DetailsAsked /\ response.status = 200

\* the route asked for has a row in routes.txt
RouteKnown == \E i \in 1..Len(routes) : routes[i]["route_id"] = request.route_id

\* the stop-times of the trips of the route asked for
RouteRowIds ==
    { i \in 1..Len(stop_times) :
        \E j \in 1..Len(trips) : /\ trips[j]["route_id"] = request.route_id
                                 /\ trips[j]["trip_id"] = stop_times[i]["trip_id"] }

\* C16: a details request for a route of routes.txt is answered normally
\* (200) also when a stop-time of the route has a stop_sequence that is not a
\* number: the value counts as 0 and nothing fails.
C16_BadSequenceStillAnswered ==
    DetailsAsked /\ RouteKnown => response.status = 200

\* C17: in a details answer, a trip's duration_minutes is null exactly when
\* its departure_time (of the first stop) or its arrival_time (of the last
\* stop) does not parse; otherwise it is arrival - departure in minutes (to
\* the two decimals reported), also when that is 0 or a time is 00:00:00; and
\* num_stops is the number of the trip's stop-times.
C17_DurationNullOnlyUnparsed ==
    DetailsAnswered =>
        \A k \in 1..Len(response.body.trips) :
            LET e == response.body.trips[k]
                dep == parse_time_to_seconds(e.departure_time[1])
                arr == parse_time_to_seconds(e.arrival_time[1])
            IN  /\ e.duration_minutes = None <=> (dep = None \/ arr = None)
                /\ e.duration_minutes # None /\ dep # None /\ arr # None =>
                      /\ 2 * (e.duration_minutes[1] * 60 - 100 * (arr[1] - dep[1])) <= 60
                      /\ 2 * (100 * (arr[1] - dep[1]) - e.duration_minutes[1] * 60) <= 60
                /\ e.num_stops =
                      Cardinality({ i \in 1..Len(stop_times) :
                                      Some(stop_times[i]["trip_id"]) = e.trip_id })

\* the first stop-time of the trip of row i: the smallest stop_sequence, the
\* earlier row on equal values
IsFirstOfTrip(i) ==
    \A j \in 1..Len(stop_times) :
        stop_times[j]["trip_id"] = stop_times[i]["trip_id"] =>
            \/ PyInt(stop_times[i]["stop_sequence"])[1] < PyInt(stop_times[j]["stop_sequence"])[1]
            \/ /\ PyInt(stop_times[i]["stop_sequence"]) = PyInt(stop_times[j]["stop_sequence"])
               /\ i <= j

\* one sample per trip of the route: the departure of its first stop-time,
\* when it parses
FirstDepartures ==
    { parse_time_to_seconds(stop_times[i]["departure_time"])[1] :
        i \in { j \in RouteRowIds :
                  /\ IsFirstOfTrip(j)
                  /\ parse_time_to_seconds(stop_times[j]["departure_time"]) # None } }

RECURSIVE GapSum(_)
GapSum(G) ==
    IF G = {} THEN 0
    ELSE LET g == CHOOSE h \in G : TRUE IN (g[2] - g[1]) + GapSum(G \ {g})

\* C18: in a details answer the average headway is the mean, in minutes (to
\* the two decimals reported), of the strictly positive gaps between the
\* first departures of the route's trips sorted ascending, a departure at
\* 00:00:00 included; it is null when there is no such gap.
C18_FirstStopHeadway ==
    DetailsAnswered =>
        LET gaps == Neighbours(FirstDepartures)
            reported == response.body.avg_headway_minutes
            den == 60 * Cardinality(gaps)
            num == 100 * GapSum(gaps)
        IN  IF gaps = {} THEN reported = None
            ELSE /\ reported # None
                 /\ 2 * (reported[1] * den - num) <= den
                 /\ 2 * (num - reported[1] * den) <= den

StatsAnswered == request.op = "get_route_stats"

\* the trips of the route asked for
RouteTripRows == { j \in 1..Len(trips) : trips[j]["route_id"] = request.route_id }

RECURSIVE CountSum(_, _)
CountSum(f, K) ==
    IF K = {} THEN 0
    ELSE LET k == CHOOSE x \in K : TRUE IN f[k] + CountSum(f, K \ {k})

\* C19: a stats answer has total_trips equal to the number of trips of the
\* route, a histogram whose counts add up to it, and every trip without a
\* service_id (no such column, or an empty value) under "unknown".
C19_ServiceHistogram ==
    StatsAnswered =>
        LET hist == response.body.trips_by_service
            missing == { j \in RouteTripRows :
                           \/ "service_id" \notin DOMAIN trips[j]
                           \/ trips[j]["service_id"] = "" }
        IN  /\ response.body.total_trips = Cardinality(RouteTripRows)
            /\ CountSum(hist, DOMAIN hist) = response.body.total_trips
            /\ missing # {} => "unknown" \in DOMAIN hist /\ hist["unknown"] = Cardinality(missing)
            /\ \A k \in DOMAIN hist : k # ""

\* the id asked for is in no table of the snapshot
UnknownIdAsked ==
    \/ /\ request.op \in {"get_route_stops", "get_route_stats"}
       /\ \A i \in 1..Len(routes) : routes[i]["route_id"] # request.route_id
       /\ \A i \in 1..Len(trips) : trips[i]["route_id"] # request.route_id
    \/ /\ request.op = "get_stop_departures"
       /\ \A i \in 1..Len(stops) : stops[i]["stop_id"] # request.stop_id
       /\ \A i \in 1..Len(stop_times) : stop_times[i]["stop_id"] # request.stop_id

\* C20: a stops, stats or departures request that names an id of no table
\* is answered not-found (404), not with a success.
C20_UnknownIdNotFound ==
    UnknownIdAsked => response.status = 404

----------------------------------------------------------------------------
(* Claims about one (route, stop) pair, checked under SpecPair *)

\* the departure seconds of the stop-times, in file order
DepartureSeconds ==
    [i \in 1..Len(stop_times) |->
        parse_time_to_seconds(stop_times[i]["departure_time"])[1]]

\* the snapshot holds departures at 08:00:00, 08:15:00, 08:15:00 and
\* 08:30:00, in any order, and GET /api/kpis was answered
ExampleDepartures ==
    /\ KpisAnswered
    /\ Len(stop_times) = 4
    /\ Cardinality({ i \in 1..4 : DepartureSeconds[i] = 28800 }) = 1
    /\ Cardinality({ i \in 1..4 : DepartureSeconds[i] = 29700 }) = 2
    /\ Cardinality({ i \in 1..4 : DepartureSeconds[i] = 30600 }) = 1

\* C11 (as stated): for one pair with departures at 08:00:00, 08:15:00,
\* 08:15:00 and 08:30:00 the headways are [900 s, 1800 s] and the average is
\* 1350 s = 22.5 minutes (2250 hundredths of a minute).
C11_ExampleAsStated ==
    ExampleDepartures =>
        /\ KpiHeadways(trips, stop_times) = <<900, 1800>>
        /\ response.body.avg_headway_minutes = 2250

\* C11 (amended): for those departures the headways are [900 s, 900 s], the
\* zero gap between the two 08:15:00 departures being discarded, and the
\* average is 900 s = 15 minutes (1500 hundredths of a minute).
C11_ExampleHeadways ==
    ExampleDepartures =>
        /\ KpiHeadways(trips, stop_times) = <<900, 900>>
        /\ response.body.avg_headway_minutes = 1500

\* C11 witness: the example's departures in the file out of time order, and
\* the KPIs answered
C11_Witness ==
    /\ ExampleDepartures
    /\ DepartureSeconds = <<29700, 30600, 28800, 29700>>

----------------------------------------------------------------------------
(* Claims about concurrent route edits, checked under SpecEditConc *)

\* the routes collection holds the edit the finished thread t asked for
EditPresent(t) ==
    LET i == FindRoute(routes, thr[t].route_id)
    IN  /\ i # 0
        /\ \A c \in RouteAttrs \cap DOMAIN thr[t].data :
              c \in DOMAIN routes[i] /\ routes[i][c] = thr[t].data[c]

\* C4: no update is lost: once two update_route requests that edit
\* different routes have both completed successfully, both edits are
\* present in the routes collection, whatever the interleaving.
C4_NoLostUpdate ==
    ( /\ \A t \in Threads : thr[t].pc = "done" /\ thr[t].status = 200
      /\ thr[1].route_id # thr[2].route_id )
    => \A t \in Threads : EditPresent(t)

----------------------------------------------------------------------------
(* Claims about the time codec, checked under SpecTime *)

NumParts(s) == Cardinality({ i \in 1..Len(s) : s[i] = ":" }) + 1

\* the text between the (k-1)th and the kth colon
Part(s, k) == Split(s, ":")[k]

\* C8: parse_time_to_seconds never raises; it returns None for empty input,
\* for a non-numeric part and for every input that does not have exactly 3
\* colon-separated parts; otherwise it returns hours*3600 + minutes*60 +
\* seconds.
C8_ParseStrict ==
    outcome.kind # "idle" =>
        /\ outcome.kind = "return"
        /\ IF \/ time_str = <<>>
              \/ NumParts(time_str) # 3
              \/ \E k \in 1..3 : PyInt(Part(time_str, k)) = None
           THEN outcome.val = None
           ELSE outcome.val =
                    Some(PyInt(Part(time_str, 1))[1] * 3600
                         + PyInt(Part(time_str, 2))[1] * 60
                         + PyInt(Part(time_str, 3))[1])

\* C9: for every n with 0 <= n < 48*3600, parsing the zero-padded HH:MM:SS
\* rendering of n returns n.
C9_RoundTrip ==
    (secs # None /\ outcome.kind # "idle") => outcome = Returned(secs)

C9_Witness ==
    /\ secs = Some(47 * 3600 + 59 * 60 + 59)
    /\ outcome = Returned(secs)

----------------------------------------------------------------------------
(* Claims about the upload records, checked under Spec *)

\* C29: after any sequence of upload, reload and delete requests,
\* CURRENT_ACTIVE_UPLOAD_ID is None or the id of an upload record that is
\* still in the database; deleting the active upload does not leave it
\* naming a deleted record.
C29_ActiveUploadExists ==
    active = None \/ active[1] \in DOMAIN uploads

\* C30: an upload record is 'Parsed' only when the route rows and the stop
\* rows of its archive are in the database: after an upload of an archive
\* with route rows (stop rows), the record just created is not 'Parsed'
\* unless the database holds route rows (stop rows) for it.
C30_ParsedOnlyWhenStored ==
    ( /\ request.op = "upload_gtfs"
      /\ response.status = 200
      /\ active # None
      /\ active[1] \in DOMAIN uploads
      /\ uploads[active[1]].status = "Parsed" )
    => \A t \in {"routes.txt", "stops.txt"} :
          request.archive[t] > 0 => uploads[active[1]].stored[t] = 1

----------------------------------------------------------------------------
(* Claims about db_operation_with_retry, checked under SpecRetry *)

RetryStarted == "pc" \in DOMAIN thr

\* what holds of the call at every moment
RetryBounded ==
    /\ thr.calls <= thr.max_retries
    /\ thr.calls <= Len(thr.errors) + 1
    /\ thr.commits <= 1
    \* an attempt was retried only after an error that mentions 'locked',
    \* with attempts remaining
    /\ \A k \in 1..Len(thr.errors) :
          (k < Len(thr.errors) \/ thr.pc # "done" \/ outcome.kind = "return")
              => MentionsLocked(thr.errors[k]) /\ k < thr.max_retries
    /\ thr.sleeps <= thr.rollbacks
    /\ thr.rollbacks = Len(thr.errors)

\* what holds of the call once it has ended
RetryEnded ==
    thr.pc = "done" =>
        \/ /\ outcome.kind = "return"
           \* the result of the last attempt, committed once
           /\ thr.commits = 1
           /\ thr.calls = Len(thr.errors) + 1
           /\ outcome.val = thr.calls - 1
        \/ /\ outcome.kind = "raise"
           /\ thr.commits = 0
           /\ IF thr.max_retries = 0
              THEN thr.calls = 0 /\ outcome.val = RetriesFailed
              ELSE /\ thr.errors # <<>>
                   \* the error of the last attempt, after its rollback
                   /\ outcome.val = thr.errors[Len(thr.errors)]
                   /\ thr.rollbacks = thr.calls
                   /\ \/ ~MentionsLocked(outcome.val)
                      \/ thr.calls = thr.max_retries

\* C28: db_operation_with_retry ends after at most max_retries attempts of
\* the operation; an attempt is retried only when its error mentions
\* 'locked' (in any case) and attempts remain; any other error, or such an
\* error on the last attempt, is raised again after a rollback; the first
\* attempt that succeeds is committed once and its result returned, with no
\* attempt after it.
C28_BoundedRetry ==
    /\ [](RetryStarted => RetryBounded /\ RetryEnded)
    /\ <>(RetryStarted /\ thr.pc = "done")

\* C28 witness: with max_retries = 3 the call was locked out twice (once by
\* the operation, once by the commit), slept twice and returned the result of
\* its third attempt
C28_Witness ==
    /\ RetryStarted
    /\ thr.pc = "done"
    /\ thr.max_retries = 3
    /\ outcome = Returned(2)
    /\ thr.calls = 3
    /\ thr.sleeps = 2
    /\ thr.commits = 1

----------------------------------------------------------------------------
(* Claims about trips without a route, checked under SpecPath *)

\* the ids of the routes of the snapshot
SnapshotRouteIds == { routes[i]["route_id"] : i \in 1..Len(routes) }

\* the trips whose route_id names no route of the snapshot
OrphanTrips ==
    { trips[i]["trip_id"] :
        i \in { j \in 1..Len(trips) : trips[j]["route_id"] \notin SnapshotRouteIds } }

\* the headway samples of the (route, stop) pairs whose route is a route of
\* the snapshot
RoutedSamples == { x \in HeadwaySamples : x[1][1] \in SnapshotRouteIds }

\* C21: a trip whose route_id names no route of the snapshot is left out of
\* every route-scoped derivation and kept in the raw trip listing: the
\* average headway of GET /api/kpis is the mean (to two decimals) of the
\* samples of the routes of the snapshot alone, and no positive number when
\* there is none; a path or details request for a route_id that only such
\* trips carry finds no route; every entry of the all-routes paths is of a
\* route of the snapshot; GET /api/trips returns every trips row.
C21_OrphanTripExcluded ==
    /\ KpisAnswered =>
          LET reported == response.body.avg_headway_minutes
              den == 60 * Cardinality(RoutedSamples)
              num == 100 * SampleSum(RoutedSamples)
          IN  IF RoutedSamples = {} THEN reported = 0
              ELSE /\ 2 * (reported * den - num) <= den
                   /\ 2 * (num - reported * den) <= den
    /\ ( /\ request.op \in {"get_route_path", "get_route_details"}
         /\ request.route_id \notin SnapshotRouteIds )
       => response.status = 404
    /\ request.op = "get_all_route_paths" =>
          \A k \in 1..Len(response.body) : response.body[k].route_id \in SnapshotRouteIds
    /\ request.op = "get_trips" =>
          /\ response.status = 200
          /\ response.body = trips
          /\ \A t \in OrphanTrips :
                \E k \in 1..Len(response.body) : response.body[k]["trip_id"] = t

----------------------------------------------------------------------------
(* Claims about the path builders, checked under SpecPath *)

\* the trips of a route, and the stop-time rows of a trip
TripsOfRoute(r) ==
    { trips[i]["trip_id"] : i \in { j \in 1..Len(trips) : trips[j]["route_id"] = r } }

TripRows(t) == { i \in 1..Len(stop_times) : stop_times[i]["trip_id"] = t }

\* the trips of a route with the most stop-times
LongestTrips(r) ==
    { t \in TripsOfRoute(r) :
        /\ TripRows(t) # {}
        /\ \A u \in TripsOfRoute(r) : Cardinality(TripRows(u)) <= Cardinality(TripRows(t)) }

\* the representative trip as claimed: of the longest trips, the one whose
\* stop-times come first in stop_times
Representative(r) ==
    CHOOSE t \in LongestTrips(r) :
        \A u \in LongestTrips(r) : \E i \in TripRows(t) : \A j \in TripRows(u) : i <= j

\* the stop a stop_id resolves to as claimed: its first row in stops
FirstStopRow(id) ==
    stops[CHOOSE i \in 1..Len(stops) :
            /\ stops[i]["stop_id"] = id
            /\ \A j \in 1..(i - 1) : stops[j]["stop_id"] # id]

StopKnown(id) == \E i \in 1..Len(stops) : stops[i]["stop_id"] = id

\* the position written in a stops row: <<lat, lon>>, each None when the
\* cell is not a number
PositionOf(stop) == <<PyFloat(stop["stop_lat"]), PyFloat(stop["stop_lon"])>>

\* a position is valid within [-90, 90] x [-180, 180], (0, 0) excepted
ValidPosition(pos) ==
    /\ pos[1] # None /\ pos[2] # None
    /\ pos[1][1] \in (0 - 90)..90
    /\ pos[2][1] \in (0 - 180)..180
    /\ ~(pos[1][1] = 0 /\ pos[2][1] = 0)

\* the stop-time rows of a trip in stop_sequence order (rows with the same
\* number in file order; a stop_sequence that is no number counts as 0)
SequenceOf(i) ==
    IF PyInt(stop_times[i]["stop_sequence"]) = None THEN 0
    ELSE PyInt(stop_times[i]["stop_sequence"])[1]

RowsInSequence(t) ==
    LET before(i) == { j \in TripRows(t) :
                         \/ SequenceOf(j) < SequenceOf(i)
                         \/ SequenceOf(j) = SequenceOf(i) /\ j < i }
    IN  [k \in 1..Cardinality(TripRows(t)) |->
            CHOOSE i \in TripRows(t) : Cardinality(before(i)) = k - 1]

RowHasValidStop(i) ==
    /\ StopKnown(stop_times[i]["stop_id"])
    /\ ValidPosition(PositionOf(FirstStopRow(stop_times[i]["stop_id"])))

\* the coordinates of a trip as claimed: the valid positions of its stops,
\* in stop_sequence order
ClaimedCoordinates(t) ==
    LET rows == SelectSeq(RowsInSequence(t), LAMBDA i : RowHasValidStop(i))
    IN  [k \in 1..Len(rows) |->
            LET pos == PositionOf(FirstStopRow(stop_times[rows[k]]["stop_id"]))
            IN  <<pos[1][1], pos[2][1]>>]

PathAsked == request.op = "get_route_path"
AllPathsAsked == request.op = "get_all_route_paths"

\* the entries of the all-routes answer for route r
EntriesOf(r) == { k \in 1..Len(response.body) : response.body[k].route_id = r }

\* C22: the single-route builder answers with a path only when the
\* representative trip yields at least 2 valid coordinates; with 0 or 1 it
\* answers "no path found" (404), and for a route without trips "no trips
\* for route" (404).
C22_PathNeedsTwoCoordinates ==
    PathAsked =>
        IF TripsOfRoute(request.route_id) = {}
        THEN response.status = 404 /\ response.body.error = "No trips found for route"
        ELSE /\ response.status = 200 => Len(response.body.coordinates) >= 2
             /\ ( \/ LongestTrips(request.route_id) = {}
                  \/ Len(ClaimedCoordinates(Representative(request.route_id))) < 2 )
                => response.status = 404 /\ response.body.error = "No path found for route"

\* C23: in both builders a stop of the representative trip contributes a
\* coordinate exactly when its position is valid (lat in [-90, 90], lon in
\* [-180, 180], not both zero), and the coordinates come in stop_sequence
\* order: no emitted coordinate is out of range or (0, 0), a stop with one
\* zero component is kept, and the coordinates of a path are those of the
\* valid stops of the representative trip, in order.
C23_ValidCoordinatesOnly ==
    /\ (PathAsked /\ response.status = 200) =>
          /\ \A k \in 1..Len(response.body.coordinates) :
                ValidPosition(<<Some(response.body.coordinates[k][1]),
                                Some(response.body.coordinates[k][2])>>)
          /\ response.body.coordinates = ClaimedCoordinates(Representative(request.route_id))
    /\ AllPathsAsked =>
          \A e \in 1..Len(response.body) :
             /\ \A k \in 1..Len(response.body[e].coordinates) :
                   ValidPosition(<<Some(response.body[e].coordinates[k][1]),
                                   Some(response.body[e].coordinates[k][2])>>)
             /\ response.body[e].coordinates
                   = ClaimedCoordinates(Representative(response.body[e].route_id))

\* C24: the all-routes batch is always answered, and it holds an entry for
\* exactly the routes whose representative trip has at least 2 valid
\* coordinates: a route without trips, without stop-times or with fewer
\* valid coordinates has no entry, and every other route has its one entry
\* whatever the other routes are like.
C24_BatchSkipsOnlyShortRoutes ==
    AllPathsAsked =>
        /\ response.status = 200
        /\ \A e \in 1..Len(response.body) : response.body[e].route_id \in SnapshotRouteIds
        /\ \A r \in SnapshotRouteIds :
              IF /\ LongestTrips(r) # {}
                 /\ Len(ClaimedCoordinates(Representative(r))) >= 2
              THEN Cardinality(EntriesOf(r)) = 1
              ELSE EntriesOf(r) = {}

\* the stop-times of the representative trip as claimed, in file order
RepresentativeRows(r) == RowsWhere(stop_times, "trip_id", Some(Representative(r)))

\* the single-route builder answers with the path of the claimed trip
SinglePathIsOfRepresentative ==
    (PathAsked /\ response.status = 200) =>
        response.body = PathBody(request.route_id,
                            PathPoints(SortBySequence(RepresentativeRows(request.route_id)), stops))

\* the all-routes builder holds, for each route, the path of the claimed trip
BatchPathIsOfRepresentative ==
    AllPathsAsked =>
        \A r \in { q \in SnapshotRouteIds : LongestTrips(q) # {} } :
            LET rows == BatchSorted(RepresentativeRows(r))
                dict == stops_dict(stops)
            IN  IF /\ \A i \in 1..Len(rows) : ~BatchPointRaises(rows[i], dict)
                   /\ Len(path_coordinates(rows, dict)) >= 2
                THEN \E e \in EntriesOf(r) :
                        response.body[e].coordinates = path_coordinates(rows, dict)
                ELSE EntriesOf(r) = {}

\* C25: in both builders the path is built on the representative trip, a
\* trip of the route with the most stop-time entries and, among the trips
\* tied for the most, the one whose stop-times come first in stop_times.
C25_FirstLongestTrip ==
    SinglePathIsOfRepresentative /\ BatchPathIsOfRepresentative

\* C26: the all-routes variant is the single-route builder repeated per
\* route: on every snapshot and for every route, the batch holds an entry
\* for the route exactly when GET /api/routes/<route_id>/path on the same
\* snapshot answers with a path, and the two carry the same coordinates in
\* the same order and the same total_stops.
C26_BatchIsSingleRepeated ==
    AllPathsAsked =>
        \A r \in SnapshotRouteIds :
            LET single == GetRoutePathHandler(trips, stop_times, stops, r)
            IN  IF single.status = 200
                THEN \E e \in EntriesOf(r) :
                        /\ response.body[e].coordinates = single.body.coordinates
                        /\ response.body[e].total_stops = single.body.total_stops
                ELSE EntriesOf(r) = {}

\* the stop-time rows of the trips of a route
RouteRowsOf(r) == UNION { TripRows(t) : t \in TripsOfRoute(r) }

\* C27: a stop_id with several rows in stops resolves to the first of them
\* in every lookup: each coordinate of an all-routes entry is the position
\* of the first row of a stop of the route, each point of a single-route
\* path carries the position and the name of the first row of its stop, and
\* the stop names of route details are those of the first rows.
C27_FirstStopRowWins ==
    /\ AllPathsAsked =>
          \A e \in 1..Len(response.body) :
             \A k \in 1..Len(response.body[e].coordinates) :
                \E i \in RouteRowsOf(response.body[e].route_id) :
                   /\ StopKnown(stop_times[i]["stop_id"])
                   /\ PositionOf(FirstStopRow(stop_times[i]["stop_id"]))
                         = <<Some(response.body[e].coordinates[k][1]),
                             Some(response.body[e].coordinates[k][2])>>
    /\ (PathAsked /\ response.status = 200) =>
          \A k \in 1..Len(response.body.stops) :
             LET first == FirstStopRow(response.body.stops[k].stop_id[1])
             IN  /\ PositionOf(first) = <<Some(response.body.coordinates[k][1]),
                                         Some(response.body.coordinates[k][2])>>
                 /\ response.body.stops[k].stop_name = Some(first["stop_name"])
    /\ (request.op = "get_route_details" /\ response.status = 200) =>
          \A k \in 1..Len(response.body.trips) :
             LET trip == response.body.trips[k]
             IN  /\ StopKnown(trip.first_stop_id[1]) =>
                       trip.first_stop_name = FirstStopRow(trip.first_stop_id[1])["stop_name"]
                 /\ StopKnown(trip.last_stop_id[1]) =>
                       trip.last_stop_name = FirstStopRow(trip.last_stop_id[1])["stop_name"]

====
